---- MODULE Spec2Model ----
(***************************************************************************)
(* Model of the Firestore persistent data store of the LaunchDarkly Go     *)
(* SDK integration (package ldfirestore): the document identity scheme,    *)
(* the size guard, the transactional Upsert, the reconciling Init that     *)
(* goes through a BulkWriter, and the IsInitialized probe.                 *)
(*                                                                         *)
(* Strings are sequences of one-character strings.  A serialized item (a   *)
(* []byte) is a sequence of runs [byte, n] (n copies of one byte), so that *)
(* the 950000-byte payloads of the size tests can be written down.         *)
(***************************************************************************)
EXTENDS Integers, Sequences, FiniteSets, TLC

VARIABLES
    prefix,         \* store.prefix, fixed at construction
    docs,           \* the Firestore collection: document ID -> document data
    pc,             \* per client: where its current call stands
    call,           \* per client: the call in progress or just returned
    ret,            \* per client: what the last call returned
    txRead,         \* per client: the snapshot tx.Get returned to the transaction
    unusedOldIDs,   \* per client: Init's map docID -> shouldDelete
    readIdx,        \* per client: readExistingDocIDs' position in newData
    operations,     \* per client: Init's operations slice, as built
    pending,        \* per client: BulkWriter jobs enqueued and not yet resolved
    failedOps,      \* per client: BulkWriter jobs of the current Init that failed
    submitted,      \* per client: the jobs the current Init handed to the BulkWriter
    atCall,         \* per client: the collection as it was when the call started
    calls,          \* number of calls started so far
    returned,       \* the numbers of the calls that have returned
    prevCall,       \* per client: its call before the current one, with its result
    client,         \* per store: store.client, the connection it uses
    ownsClient,     \* the big-segment store's ownsClient
    cancelled,      \* per store: whether store.context has been cancelled
    connOpen        \* per connection: whether it is still open

vars == <<prefix, docs, pc, call, ret, txRead, unusedOldIDs, readIdx,
          operations, pending, failedOps, submitted, atCall, calls,
          returned, prevCall, client, ownsClient, cancelled, connOpen>>

\* the fields and connections that only construction and Close touch
lifecycle == <<client, ownsClient, cancelled, connOpen>>

----------------------------------------------------------------------------
(* Bounds of the model *)

MaxVersion == 2
NumKeys == 2
MaxItems == 2
MaxCalls == 2
MaxUpserts == 3
MaxReadCalls == 3
MaxLifeCalls == 3
MaxPrefixCalls == 2
MaxLen == 2
MaxIdCalls == 2
MaxBsCalls == 2
MaxBuildCalls == 3
MaxRaceCalls == 2
MaxGetAllCalls == 2
MaxSizeCalls == 2

----------------------------------------------------------------------------
(* Program constants *)

fieldNamespace == "namespace"
fieldKey == "key"
fieldVersion == "version"
fieldItem == "item"

firestoreMaxDocSize == 900000

\* len() of the four field names
FieldNameLen == [namespace |-> 9, key |-> 3, version |-> 7, item |-> 4]

\* the size estimate checkSizeLimit uses for a non-string value
NumericSizeEstimate == 8

Colon == <<":">>

\* kind.GetName() of the two data kinds of the SDK, abbreviated
Features == <<"f">>
Segments == <<"s">>
KindOrder == <<Features, Segments>>
Kinds == {KindOrder[i] : i \in 1..Len(KindOrder)}

KeyOrder == <<<<"a">>, <<"b">>, <<"c">>, <<"d">>>>
Keys == {KeyOrder[i] : i \in 1..NumKeys}

Versions == 0..MaxVersion

\* serialized items: two small ones and the padded one of the size tests
SmallItem == <<[byte |-> "j", n |-> 30]>>
OtherItem == <<[byte |-> "k", n |-> 30]>>
BigItem == <<[byte |-> "j", n |-> 30], [byte |-> "x", n |-> 950000]>>

Prefixes == {<<>>, <<"p">>}

Clients == {"c1", "c2"}

\* the store instances: the data stores of the clients and a big-segment store
BigSegmentStore == "bs"
Stores == Clients \cup {BigSegmentStore}

\* the connections: the one each store would create and one the caller supplies
ExternalClient == "ext"
Conns == Stores \cup {ExternalClient}

----------------------------------------------------------------------------
(* Pure functions *)

RECURSIVE ByteLen(_)
ByteLen(bytes) ==
    IF bytes = <<>> THEN 0 ELSE Head(bytes).n + ByteLen(Tail(bytes))

\* mutant: the namespace is the bare kind name, whatever the prefix
prefixedNamespace_Unprefixed(pre, baseNamespace) == baseNamespace

\* the methods of a store whose prefix is pre
prefixedNamespaceOf(pre, baseNamespace) ==
    IF pre = <<>> THEN baseNamespace
    ELSE pre \o Colon \o baseNamespace

namespaceForKindOf(pre, kind) == prefixedNamespaceOf(pre, kind)

\* the reserved name of the sentinel's namespace and key
InitedName == <<"$", "i", "n", "i", "t", "e", "d">>

initedKeyOf(pre) == prefixedNamespaceOf(pre, InitedName)

\* makeDocIDFromParts with the parts joined without the delimiter
makeDocIDFromParts_NoDelimiter(pre, namespace, key) == pre \o namespace \o key

makeDocIDFromPartsOf(pre, namespace, key) ==
    IF pre = <<>> THEN namespace \o Colon \o key
    ELSE pre \o Colon \o namespace \o Colon \o key

makeDocIDOf(pre, kind, key) ==
    makeDocIDFromPartsOf(pre, namespaceForKindOf(pre, kind), key)

initedDocIDOf(pre) == makeDocIDFromPartsOf(pre, initedKeyOf(pre), initedKeyOf(pre))

\* the same methods on the store under test, whose prefix is the variable
prefixedNamespace(baseNamespace) == prefixedNamespaceOf(prefix, baseNamespace)

namespaceForKind(kind) == namespaceForKindOf(prefix, kind)

initedKey == initedKeyOf(prefix)

makeDocIDFromParts(namespace, key) == makeDocIDFromPartsOf(prefix, namespace, key)

makeDocID(kind, key) == makeDocIDOf(prefix, kind, key)

initedDocID == initedDocIDOf(prefix)

encodeItemOf(pre, kind, key, item) ==
    [namespace |-> namespaceForKindOf(pre, kind),
     key |-> key,
     version |-> item.Version,
     item |-> item.SerializedItem]

encodeItem(kind, key, item) == encodeItemOf(prefix, kind, key, item)

\* the size checkSizeLimit adds for one field of an encoded item
FieldSize(data, f) ==
    FieldNameLen[f] +
        (IF f = fieldVersion THEN NumericSizeEstimate
         ELSE IF f = fieldItem THEN ByteLen(data[f])
         ELSE Len(data[f]))

RECURSIVE SumFieldSizes(_, _)
SumFieldSizes(data, fields) ==
    IF fields = {} THEN 0
    ELSE LET f == CHOOSE x \in fields : TRUE
         IN FieldSize(data, f) + SumFieldSizes(data, fields \ {f})

EstimatedSize(data) == SumFieldSizes(data, DOMAIN data)

\* the guard with the limit itself refused
checkSizeLimit_Strict(data) == EstimatedSize(data) < firestoreMaxDocSize

\* mutant: the guard uses Firestore's own limit of 1 MiB
checkSizeLimit_MiB(data) == EstimatedSize(data) <= 1048576

checkSizeLimit(data) == EstimatedSize(data) <= firestoreMaxDocSize

\* checkSizeLimit's loop when ranging over the map visits the fields in order
RECURSIVE SizeInOrder(_, _)
SizeInOrder(data, order) ==
    IF order = <<>> THEN 0
    ELSE SizeInOrder(data, [i \in 1..(Len(order) - 1) |-> order[i]])
         + FieldSize(data, order[Len(order)])

checkSizeLimitInOrder(data, order) == SizeInOrder(data, order) <= firestoreMaxDocSize

----------------------------------------------------------------------------
(* Inputs *)

Payloads == {SmallItem, OtherItem, BigItem}
InitPayloads == {SmallItem, BigItem}

ItemDescriptors == [Version : Versions, SerializedItem : Payloads]
\* Init copies an item's version without looking at it: its datasets carry one
InitVersions == {1}
InitItemDescriptors == [Version : InitVersions, SerializedItem : InitPayloads]

\* the keyed items of one collection: the keys of f in KeyOrder's order
RECURSIVE KeyedItems(_, _)
KeyedItems(f, i) ==
    IF i > Len(KeyOrder) THEN <<>>
    ELSE (IF KeyOrder[i] \in DOMAIN f
          THEN <<[Key |-> KeyOrder[i], Item |-> f[KeyOrder[i]]]>>
          ELSE <<>>) \o KeyedItems(f, i + 1)

\* a dataset: the kinds of g in KindOrder's order, each with its items
RECURSIVE Collections(_, _)
Collections(g, i) ==
    IF i > Len(KindOrder) THEN <<>>
    ELSE (IF KindOrder[i] \in DOMAIN g
          THEN <<[Kind |-> KindOrder[i], Items |-> KeyedItems(g[KindOrder[i]], 1)]>>
          ELSE <<>>) \o Collections(g, i + 1)

RECURSIVE NumItems(_)
NumItems(allData) ==
    IF allData = <<>> THEN 0
    ELSE Len(Head(allData).Items) + NumItems(Tail(allData))

KeyItemFns == UNION {[ks -> InitItemDescriptors] : ks \in SUBSET Keys}

\* every dataset of at most MaxItems items, keys unique within a kind
AllDataSets ==
    {d \in UNION {{Collections(g, 1) : g \in [S -> KeyItemFns]} : S \in SUBSET Kinds} :
        NumItems(d) <= MaxItems}

----------------------------------------------------------------------------
(* The collection *)

NoDocs == [id \in {} |-> TRUE]

\* what docRef.Get / tx.Get see of a document
Snapshot(store, docID) ==
    IF docID \in DOMAIN store
    THEN [exists |-> TRUE, data |-> store[docID]]
    ELSE [exists |-> FALSE]

\* a write that replaces the collection by the one document
SetDoc_Alone(store, docID, data) == [id \in {docID} |-> data]

SetDoc(store, docID, data) ==
    [id \in DOMAIN store \cup {docID} |-> IF id = docID THEN data ELSE store[id]]

DeleteDoc(store, docID) ==
    [id \in DOMAIN store \ {docID} |-> store[id]]

\* a query that returns every document of the collection
QueryNamespace_All(store, namespace) == DOMAIN store

\* the IDs a query Where(namespace == ns) returns
QueryNamespace(store, namespace) ==
    {id \in DOMAIN store : store[id][fieldNamespace] = namespace}

----------------------------------------------------------------------------
(* Initial state: a store just constructed over an empty collection *)

NoCall == [op |-> "none", n |-> 0, pre |-> {}]
NoRet == [op |-> "none"]

\* the data of every store, nothing called yet, over the collection store0
Constructed(store0) ==
    /\ docs = store0
    /\ pc = [p \in Stores |-> "idle"]
    /\ call = [p \in Stores |-> NoCall]
    /\ ret = [p \in Stores |-> NoRet]
    /\ txRead = [p \in Stores |-> [exists |-> FALSE]]
    /\ unusedOldIDs = [p \in Stores |-> NoDocs]
    /\ readIdx = [p \in Stores |-> 0]
    /\ operations = [p \in Stores |-> <<>>]
    /\ pending = [p \in Stores |-> {}]
    /\ failedOps = [p \in Stores |-> {}]
    /\ submitted = [p \in Stores |-> {}]
    /\ atCall = [p \in Stores |-> NoDocs]
    /\ calls = 0
    /\ returned = {}
    /\ prevCall = [p \in Stores |-> [call |-> NoCall, ret |-> NoRet]]
    /\ cancelled = [p \in Stores |-> FALSE]
    /\ connOpen = [c \in Conns |-> TRUE]

\* makeClientAndContext and the constructors: a store uses the connection of
\* its builder if there is one (supplied[p]), else one it creates
Built(supplied) ==
    /\ client = [p \in Stores |-> IF supplied[p] THEN ExternalClient ELSE p]
    /\ ownsClient = ~supplied[BigSegmentStore]

\* stores built without a supplied connection, over an empty collection
Init ==
    /\ prefix \in Prefixes
    /\ Constructed(NoDocs)
    /\ Built([p \in Stores |-> FALSE])

\* whether a request of store p can get through: its context is live and its
\* connection open
Usable(p) == ~cancelled[p] /\ connOpen[client[p]]

\* a client starts the call c
Begin(p, c) ==
    /\ pc[p] \in {"idle", "done"}
    /\ pending[p] = {}
    /\ calls' = calls + 1
    /\ call' = [call EXCEPT ![p] = c @@ [n |-> calls + 1, pre |-> returned]]
    /\ prevCall' = [prevCall EXCEPT ![p] = [call |-> call[p], ret |-> ret[p]]]
    /\ atCall' = [atCall EXCEPT ![p] = docs]
    /\ txRead' = [txRead EXCEPT ![p] = [exists |-> FALSE]]
    /\ unusedOldIDs' = [unusedOldIDs EXCEPT ![p] = NoDocs]
    /\ operations' = [operations EXCEPT ![p] = <<>>]
    /\ pending' = [pending EXCEPT ![p] = {}]
    /\ failedOps' = [failedOps EXCEPT ![p] = {}]
    /\ submitted' = [submitted EXCEPT ![p] = {}]

\* the call of client p returns r
Return(p, c, r) ==
    /\ pc' = [pc EXCEPT ![p] = "done"]
    /\ ret' = [ret EXCEPT ![p] = r]
    /\ returned' = returned \cup {c.n}

----------------------------------------------------------------------------
(* Upsert *)

\* Upsert up to the transaction: encode, size guard, test hook
UpsertCall(p, kind, key, newItem) ==
    /\ Begin(p, [op |-> "Upsert", kind |-> kind, key |-> key, newItem |-> newItem])
    /\ readIdx' = [readIdx EXCEPT ![p] = 0]
    /\ UNCHANGED <<prefix, lifecycle, docs>>
    /\ IF ~checkSizeLimit(encodeItem(kind, key, newItem))
       THEN Return(p, call'[p], [op |-> "Upsert", applied |-> FALSE, err |-> "nil"])
       ELSE /\ pc' = [pc EXCEPT ![p] = "tx"]
            /\ UNCHANGED <<ret, returned>>

\* mutant: the stored version asserted to the wrong integer type, so that the
\* assertion fails and every existing document counts as version 0
OldVersion_WrongType(snap) ==
    IF snap.exists THEN 0 ELSE -1

\* the version the transaction function compares with
OldVersion(snap) ==
    IF snap.exists
    THEN (IF fieldVersion \in DOMAIN snap.data THEN snap.data[fieldVersion] ELSE 0)
    ELSE -1

\* mutant: an equal version passes the check
VersionCheckFails_Strict(oldVersion, newVersion) == oldVersion > newVersion

\* whether the transaction function gives up with errVersionCheckFailed
VersionCheckFails(oldVersion, newVersion) == oldVersion >= newVersion

errVersionCheckFailed == "version check failed"

\* mutant: the sentinel error is not told apart from the other errors
UpsertResult_ConflictIsError(err) ==
    IF err # "nil"
    THEN [op |-> "Upsert", applied |-> FALSE, err |-> "failed to upsert"]
    ELSE [op |-> "Upsert", applied |-> TRUE, err |-> "nil"]

\* what Upsert returns for the error RunTransaction gave it
UpsertResult(err) ==
    IF err = errVersionCheckFailed
    THEN [op |-> "Upsert", applied |-> FALSE, err |-> "nil"]
    ELSE IF err # "nil"
    THEN [op |-> "Upsert", applied |-> FALSE, err |-> "failed to upsert"]
    ELSE [op |-> "Upsert", applied |-> TRUE, err |-> "nil"]

\* the function given to RunTransaction: tx.Get, the version check, tx.Set
TxBody(p) ==
    /\ pc[p] = "tx"
    /\ Usable(p)
    /\ LET c == call[p]
           snap == Snapshot(docs, makeDocID(c.kind, c.key))
       IN IF VersionCheckFails(OldVersion(snap), c.newItem.Version)
          THEN /\ Return(p, call[p], UpsertResult(errVersionCheckFailed))
               /\ UNCHANGED txRead
          ELSE /\ pc' = [pc EXCEPT ![p] = "commit"]
               /\ txRead' = [txRead EXCEPT ![p] = snap]
               /\ UNCHANGED <<ret, returned>>
    /\ UNCHANGED <<prefix, lifecycle, docs, call, unusedOldIDs, readIdx, operations,
                   pending, failedOps, submitted, atCall, calls, prevCall>>

\* mutant: a plain read followed by a plain write, no conflict detection
CommitValid_Unchecked(snap, now) == TRUE

\* whether the commit of a transaction that read snap goes through
CommitValid(snap, now) == snap = now

\* the commit: it goes through if the document is as the transaction read it,
\* else RunTransaction runs the function again
TxCommit(p) ==
    /\ pc[p] = "commit"
    /\ Usable(p)
    /\ LET c == call[p]
           docID == makeDocID(c.kind, c.key)
       IN IF CommitValid(txRead[p], Snapshot(docs, docID))
          THEN /\ docs' = SetDoc(docs, docID, encodeItem(c.kind, c.key, c.newItem))
               /\ Return(p, call[p], UpsertResult("nil"))
          ELSE /\ pc' = [pc EXCEPT ![p] = "tx"]
               /\ UNCHANGED <<docs, ret, returned>>
    /\ UNCHANGED <<prefix, lifecycle, call, txRead, unusedOldIDs, readIdx, operations,
                   pending, failedOps, submitted, atCall, calls, prevCall>>

\* the transaction ends with an error other than the version check
TxFail(p) ==
    /\ pc[p] \in {"tx", "commit"}
    /\ Return(p, call[p], UpsertResult("unavailable"))
    /\ UNCHANGED <<prefix, lifecycle, docs, call, txRead, unusedOldIDs, readIdx, operations,
                   pending, failedOps, submitted, atCall, calls, prevCall>>

----------------------------------------------------------------------------
(* Init *)

\* allData as one sequence of (kind, key, item), in the order Init visits it
RECURSIVE FlatItems(_)
FlatItems(allData) ==
    IF allData = <<>> THEN <<>>
    ELSE [i \in 1..Len(Head(allData).Items) |->
             [kind |-> Head(allData).Kind,
              key |-> Head(allData).Items[i].Key,
              item |-> Head(allData).Items[i].Item]]
         \o FlatItems(Tail(allData))

setOperation(docID, data) == [type |-> "set", ref |-> docID, data |-> data]
deleteOperation(docID) == [type |-> "delete", ref |-> docID]

\* mutant: the first loop does not ask the size guard
InitKeeps_Always(it) == TRUE

\* whether Init's first loop writes the item (the size guard)
InitKeeps(it) == checkSizeLimit(encodeItem(it.kind, it.key, it.item))

\* the set operations of Init's first loop
RECURSIVE WriteOps(_)
WriteOps(items) ==
    IF items = <<>> THEN <<>>
    ELSE LET it == Head(items)
         IN (IF InitKeeps(it)
             THEN <<setOperation(makeDocID(it.kind, it.key),
                                 encodeItem(it.kind, it.key, it.item))>>
             ELSE <<>>) \o WriteOps(Tail(items))

\* mutant: the ID is marked as in use before the size guard is asked
UsedIDs_BeforeSizeGuard(items) ==
    {makeDocID(items[i].kind, items[i].key) : i \in 1..Len(items)}

\* the IDs Init's first loop marks as still in use
UsedIDs(items) ==
    {makeDocID(items[i].kind, items[i].key) :
        i \in {j \in 1..Len(items) : InitKeeps(items[j])}}

\* mutant: the first loop forgets unusedOldIDs[docID] = false
MarkUsed_Forgotten(unused, items) == unused

\* unusedOldIDs after Init's first loop
MarkUsed(unused, items) ==
    [id \in DOMAIN unused \cup UsedIDs(items) |->
        IF id \in UsedIDs(items) THEN FALSE ELSE unused[id]]

\* the second loop sweeps the documents that are there when it runs
DeleteIDs_Current(unused) ==
    {id \in DOMAIN docs :
        /\ id \in DOMAIN unused => unused[id]
        /\ docs[id][fieldNamespace] # initedKey
        /\ id # initedDocID}

\* mutant: the second loop tests the flag the wrong way round
DeleteIDs_Inverted(unused) ==
    {id \in DOMAIN unused : ~unused[id] /\ id # initedDocID}

\* mutant: the second loop also sweeps the inited document, to be rewritten
DeleteIDs_AndInited(unused) ==
    {id \in DOMAIN unused : unused[id]} \cup {initedDocID}

\* the IDs Init's second loop enqueues for deletion
DeleteIDs(unused) ==
    {id \in DOMAIN unused : unused[id] /\ id # initedDocID}

\* the write of the special document IsInitialized looks for
InitedOp ==
    setOperation(initedDocID, [namespace |-> initedKey, key |-> initedKey])

\* the orders in which ranging over a Go map can visit the IDs
Orders(ids) ==
    {o \in [1..Cardinality(ids) -> ids] :
        \A i, j \in 1..Cardinality(ids) : i # j => o[i] # o[j]}

InitCall(p, allData) ==
    /\ Begin(p, [op |-> "Init", allData |-> allData])
    /\ readIdx' = [readIdx EXCEPT ![p] = 1]
    /\ pc' = [pc EXCEPT ![p] = IF allData = <<>> THEN "initBuild" ELSE "initRead"]
    /\ UNCHANGED <<prefix, lifecycle, docs, ret, returned>>

\* one query of readExistingDocIDs: the IDs of one kind's namespace
InitRead(p) ==
    /\ pc[p] = "initRead"
    /\ Usable(p)
    /\ LET newData == call[p].allData
           namespace == namespaceForKind(newData[readIdx[p]].Kind)
           found == QueryNamespace(docs, namespace)
       IN /\ unusedOldIDs' = [unusedOldIDs EXCEPT ![p] =
                 [id \in DOMAIN @ \cup found |-> TRUE]]
          /\ readIdx' = [readIdx EXCEPT ![p] = @ + 1]
          /\ pc' = [pc EXCEPT ![p] =
                 IF readIdx[p] = Len(newData) THEN "initBuild" ELSE "initRead"]
    /\ UNCHANGED <<prefix, lifecycle, docs, call, ret, txRead, operations, pending,
                   failedOps, submitted, atCall, calls, returned, prevCall>>

\* Init writes the inited document although reading the IDs failed
InitReadFail_WritesInited(p) ==
    /\ pc[p] = "initRead"
    /\ Return(p, call[p], [op |-> "Init", err |-> "failed to get existing items prior to Init"])
    /\ docs' = SetDoc(docs, InitedOp.ref, InitedOp.data)
    /\ submitted' = [submitted EXCEPT ![p] = {InitedOp}]
    /\ UNCHANGED <<prefix, lifecycle, call, txRead, unusedOldIDs, readIdx, operations,
                   pending, failedOps, atCall, calls, prevCall>>

\* a query of readExistingDocIDs fails: Init returns the error
InitReadFail(p) ==
    /\ pc[p] = "initRead"
    /\ Return(p, call[p], [op |-> "Init", err |-> "failed to get existing items prior to Init"])
    /\ UNCHANGED <<prefix, lifecycle, docs, call, txRead, unusedOldIDs, readIdx, operations,
                   pending, failedOps, submitted, atCall, calls, prevCall>>

\* Init with the deletes put before the writes
InitBuild_DeletesFirst(p) ==
    /\ pc[p] = "initBuild"
    /\ LET items == FlatItems(call[p].allData)
           unused == MarkUsed(unusedOldIDs[p], items)
       IN /\ unusedOldIDs' = [unusedOldIDs EXCEPT ![p] = unused]
          /\ \E order \in Orders(DeleteIDs(unused)) :
                operations' = [operations EXCEPT ![p] =
                    [i \in 1..Len(order) |-> deleteOperation(order[i])]
                    \o WriteOps(items)
                    \o <<InitedOp>>]
    /\ pc' = [pc EXCEPT ![p] = "initSubmit"]
    /\ UNCHANGED <<prefix, lifecycle, docs, call, ret, txRead, readIdx, pending,
                   failedOps, submitted, atCall, calls, returned, prevCall>>

\* Init builds its operations: the writes, then the deletes, then the inited document
InitBuild(p) ==
    /\ pc[p] = "initBuild"
    /\ LET items == FlatItems(call[p].allData)
           unused == MarkUsed(unusedOldIDs[p], items)
       IN /\ unusedOldIDs' = [unusedOldIDs EXCEPT ![p] = unused]
          /\ \E order \in Orders(DeleteIDs(unused)) :
                operations' = [operations EXCEPT ![p] =
                    WriteOps(items)
                    \o [i \in 1..Len(order) |-> deleteOperation(order[i])]
                    \o <<InitedOp>>]
    /\ pc' = [pc EXCEPT ![p] = "initSubmit"]
    /\ UNCHANGED <<prefix, lifecycle, docs, call, ret, txRead, readIdx, pending,
                   failedOps, submitted, atCall, calls, returned, prevCall>>

\* batchWriteOperations hands every operation to the BulkWriter and calls End
InitSubmit(p) ==
    /\ pc[p] = "initSubmit"
    /\ LET jobs == {operations[p][i] : i \in 1..Len(operations[p])}
       IN /\ pending' = [pending EXCEPT ![p] = jobs]
          /\ submitted' = [submitted EXCEPT ![p] = jobs]
    /\ operations' = [operations EXCEPT ![p] = <<>>]
    /\ pc' = [pc EXCEPT ![p] = "initFlush"]
    /\ UNCHANGED <<prefix, lifecycle, docs, call, ret, txRead, unusedOldIDs, readIdx,
                   failedOps, atCall, calls, returned, prevCall>>

\* op.apply returns an error at the i-th operation: batchWriteOperations returns
\* at once, the operations before it stay with the BulkWriter, End is not called
InitEnqueueFail(p, i) ==
    /\ pc[p] = "initSubmit"
    /\ i \in 1..Len(operations[p])
    /\ LET jobs == {operations[p][j] : j \in 1..(i - 1)}
       IN /\ pending' = [pending EXCEPT ![p] = jobs]
          /\ submitted' = [submitted EXCEPT ![p] = jobs]
    /\ operations' = [operations EXCEPT ![p] = <<>>]
    /\ Return(p, call[p], [op |-> "Init", err |-> "failed to write"])
    /\ UNCHANGED <<prefix, lifecycle, docs, call, txRead, unusedOldIDs, readIdx,
                   failedOps, atCall, calls, prevCall>>

\* the effect of one BulkWriter job on the collection
ApplyOp(store, o) ==
    IF o.type = "set" THEN SetDoc(store, o.ref, o.data)
    ELSE DeleteDoc(store, o.ref)

\* the BulkWriter sends its jobs in parallel: any pending job may be applied next
BulkApply(p, o) ==
    /\ o \in pending[p]
    /\ Usable(p)
    /\ docs' = ApplyOp(docs, o)
    /\ pending' = [pending EXCEPT ![p] = @ \ {o}]
    /\ UNCHANGED <<prefix, lifecycle, pc, call, ret, txRead, unusedOldIDs, readIdx, operations,
                   failedOps, submitted, atCall, calls, returned, prevCall>>

\* a job fails at the server; its result is in the BulkWriterJob nobody reads
BulkFail(p, o) ==
    /\ o \in pending[p]
    /\ pending' = [pending EXCEPT ![p] = @ \ {o}]
    /\ failedOps' = [failedOps EXCEPT ![p] = @ \cup {o}]
    /\ UNCHANGED <<prefix, lifecycle, docs, pc, call, ret, txRead, unusedOldIDs, readIdx,
                   operations, submitted, atCall, calls, returned, prevCall>>

\* End has waited for every job: batchWriteOperations and Init return nil
InitReturn(p) ==
    /\ pc[p] = "initFlush"
    /\ pending[p] = {}
    /\ Return(p, call[p], [op |-> "Init", err |-> "nil"])
    /\ UNCHANGED <<prefix, lifecycle, docs, call, txRead, unusedOldIDs, readIdx, operations,
                   pending, failedOps, submitted, atCall, calls, prevCall>>

----------------------------------------------------------------------------
(* IsInitialized *)

\* mutant: a NotFound answer is taken for success
GetSucceeds_NotFoundToo(store, docID, reachable) == reachable

\* docRef.Get: err == nil exactly when the store answers and the document exists
GetSucceeds(store, docID, reachable) == reachable /\ docID \in DOMAIN store

IsInitialized(p, reachable) ==
    /\ Begin(p, [op |-> "IsInitialized", reachable |-> reachable])
    /\ readIdx' = [readIdx EXCEPT ![p] = 0]
    /\ Return(p, call'[p], [op |-> "IsInitialized",
                  value |-> GetSucceeds(docs, initedDocID, reachable /\ Usable(p))])
    /\ UNCHANGED <<prefix, lifecycle, docs>>

----------------------------------------------------------------------------
(* Get, GetAll, IsStoreAvailable *)

\* SerializedItemDescriptor{}.NotFound(): version -1 and no payload
NotFound == [Version |-> -1, SerializedItem |-> <<>>]

\* mutant: the version field is not read back
decodeDocument_NoVersion(data) ==
    LET key == IF fieldKey \in DOMAIN data THEN data[fieldKey] ELSE <<>>
        itemJSON == IF fieldItem \in DOMAIN data THEN data[fieldItem] ELSE <<>>
    IN [ok |-> key # <<>>,
        key |-> key,
        item |-> IF key # <<>>
                 THEN [Version |-> 0, SerializedItem |-> itemJSON]
                 ELSE [Version |-> 0, SerializedItem |-> <<>>]]

\* decodeDocument: a field that is missing or of another type reads as the
\* zero value; the document counts only if its key is not empty
decodeDocument(data) ==
    LET key == IF fieldKey \in DOMAIN data THEN data[fieldKey] ELSE <<>>
        version == IF fieldVersion \in DOMAIN data THEN data[fieldVersion] ELSE 0
        itemJSON == IF fieldItem \in DOMAIN data THEN data[fieldItem] ELSE <<>>
    IN [ok |-> key # <<>>,
        key |-> key,
        item |-> IF key # <<>>
                 THEN [Version |-> version, SerializedItem |-> itemJSON]
                 ELSE [Version |-> 0, SerializedItem |-> <<>>]]

\* what Get returns when the request for the document got the answer snap
GetResult(snap) ==
    IF ~snap.exists
    THEN [op |-> "Get", item |-> NotFound, err |-> "nil"]
    ELSE IF decodeDocument(snap.data).ok
    THEN [op |-> "Get", item |-> decodeDocument(snap.data).item, err |-> "nil"]
    ELSE [op |-> "Get", item |-> NotFound, err |-> "invalid data"]

\* Get: one request; reachable says whether the store answers it
Get(p, kind, key, reachable) ==
    /\ Begin(p, [op |-> "Get", kind |-> kind, key |-> key, reachable |-> reachable])
    /\ readIdx' = [readIdx EXCEPT ![p] = 0]
    /\ Return(p, call'[p],
              IF reachable /\ Usable(p)
              THEN GetResult(Snapshot(docs, makeDocID(kind, key)))
              ELSE [op |-> "Get", item |-> NotFound, err |-> "failed to get"])
    /\ UNCHANGED <<prefix, lifecycle, docs>>

\* GetAll without the query's filter on the namespace
GetAllResults_AnyNamespace(store, namespace) ==
    [id \in {d \in DOMAIN store : decodeDocument(store[d]).ok} |->
        [Key |-> decodeDocument(store[id]).key,
         Item |-> decodeDocument(store[id]).item]]

\* the entries GetAll collects: one for each document of the namespace that
\* decodeDocument accepts
GetAllResults(store, namespace) ==
    [id \in {d \in QueryNamespace(store, namespace) : decodeDocument(store[d]).ok} |->
        [Key |-> decodeDocument(store[id]).key,
         Item |-> decodeDocument(store[id]).item]]

\* GetAll: one query
GetAll(p, kind, reachable) ==
    /\ Begin(p, [op |-> "GetAll", kind |-> kind, reachable |-> reachable])
    /\ readIdx' = [readIdx EXCEPT ![p] = 0]
    /\ Return(p, call'[p],
              IF reachable /\ Usable(p)
              THEN [op |-> "GetAll",
                    items |-> GetAllResults(docs, namespaceForKind(kind)),
                    err |-> "nil"]
              ELSE [op |-> "GetAll", items |-> NoDocs,
                    err |-> "failed to iterate documents"])
    /\ UNCHANGED <<prefix, lifecycle, docs>>

\* IsStoreAvailable: err == nil of the Get of the inited document
IsStoreAvailable(p, reachable) ==
    /\ Begin(p, [op |-> "IsStoreAvailable", reachable |-> reachable])
    /\ readIdx' = [readIdx EXCEPT ![p] = 0]
    /\ Return(p, call'[p], [op |-> "IsStoreAvailable",
                  value |-> GetSucceeds(docs, initedDocID, reachable /\ Usable(p))])
    /\ UNCHANGED <<prefix, lifecycle, docs>>

----------------------------------------------------------------------------
(* Close *)

\* a store's Close: cancelContext, then client.Close() if closesClient
CloseStore(p, closesClient) ==
    /\ Begin(p, [op |-> "Close"])
    /\ readIdx' = [readIdx EXCEPT ![p] = 0]
    /\ cancelled' = [cancelled EXCEPT ![p] = TRUE]
    /\ connOpen' = IF closesClient
                   THEN [connOpen EXCEPT ![client[p]] = FALSE]
                   ELSE connOpen
    /\ Return(p, call'[p], [op |-> "Close", err |-> "nil"])
    /\ UNCHANGED <<prefix, docs, client, ownsClient>>

\* firestoreDataStore.Close closes store.client, whoever created it
Close(p) == CloseStore(p, TRUE)

\* mutant: the big-segment store closes its client like the data store does
BigSegmentClosesClient_Always == TRUE

\* whether firestoreBigSegmentStoreImpl.Close closes store.client
BigSegmentClosesClient == ownsClient

BigSegmentClose == CloseStore(BigSegmentStore, BigSegmentClosesClient)

----------------------------------------------------------------------------
(* The big-segment store's reads *)

\* the namespaces of the big-segment documents, abbreviated
bigSegmentsMetadataKey == <<"m">>
bigSegmentsUserDataKey == <<"u">>
bigSegmentsSyncTimeAttr == "synchronizedOn"
bigSegmentsIncludedAttr == "included"
bigSegmentsExcludedAttr == "excluded"

HashKeys == {<<"h">>}

\* makeDocID with every key taken for the same record
bigSegmentMakeDocID_OneRecord(namespace, key) ==
    (IF prefix # <<>> THEN prefix \o Colon \o namespace ELSE namespace)
        \o Colon \o <<"h">>

\* firestoreBigSegmentStoreImpl.makeDocID
bigSegmentMakeDocID(namespace, key) ==
    (IF prefix # <<>> THEN prefix \o Colon \o namespace ELSE namespace)
        \o Colon \o key

\* A field of a big-segment document is a value with its Firestore type:
\* [type |-> "int64", val |-> n], [type |-> "string", val |-> s],
\* [type |-> "array", val |-> a sequence of such values].

\* uint64(value) with the values that do not fit an int64 taken for zero
Uint64_Clamped(value) ==
    IF value >= 0 THEN [wrapped |-> FALSE, val |-> value]
    ELSE [wrapped |-> FALSE, val |-> 0]

\* uint64(value): a negative value wraps round to 2^64 - |value|
Uint64(value) ==
    IF value >= 0 THEN [wrapped |-> FALSE, val |-> value]
    ELSE [wrapped |-> TRUE, val |-> -value]

ZeroMetadata == [wrapped |-> FALSE, val |-> 0]

\* what GetMetadata returns when the request got the answer snap
MetadataResult(snap) ==
    IF ~snap.exists
    THEN [op |-> "GetMetadata", LastUpToDate |-> ZeroMetadata, err |-> "nil"]
    ELSE LET data == snap.data
             ok == /\ bigSegmentsSyncTimeAttr \in DOMAIN data
                   /\ data[bigSegmentsSyncTimeAttr].type = "int64"
         IN IF ~ok \/ data[bigSegmentsSyncTimeAttr].val = 0
            THEN [op |-> "GetMetadata", LastUpToDate |-> ZeroMetadata, err |-> "nil"]
            ELSE [op |-> "GetMetadata",
                  LastUpToDate |-> Uint64(data[bigSegmentsSyncTimeAttr].val),
                  err |-> "nil"]

GetMetadata(reachable) ==
    /\ Begin(BigSegmentStore, [op |-> "GetMetadata", reachable |-> reachable])
    /\ readIdx' = [readIdx EXCEPT ![BigSegmentStore] = 0]
    /\ Return(BigSegmentStore, call'[BigSegmentStore],
              IF reachable /\ Usable(BigSegmentStore)
              THEN MetadataResult(Snapshot(docs,
                       bigSegmentMakeDocID(bigSegmentsMetadataKey, bigSegmentsMetadataKey)))
              ELSE [op |-> "GetMetadata", LastUpToDate |-> ZeroMetadata,
                    err |-> "unavailable"])
    /\ UNCHANGED <<prefix, lifecycle, docs>>

\* the strings of an array up to its first element that is not a string
RECURSIVE StringsOf(_)
StringsOf(arr) ==
    IF arr = <<>> THEN [refs |-> <<>>, err |-> "nil"]
    ELSE IF Head(arr).type # "string"
    THEN [refs |-> <<>>, err |-> "expected string array but found"]
    ELSE LET rest == StringsOf(Tail(arr))
         IN IF rest.err # "nil" THEN rest
            ELSE [refs |-> <<Head(arr).val>> \o rest.refs, err |-> "nil"]

\* getStringSliceFromInterface with the elements that are not strings skipped
getStringSliceFromInterface_Skipping(data, key) ==
    IF key \notin DOMAIN data THEN [refs |-> <<>>, err |-> "nil"]
    ELSE IF data[key].type = "array"
    THEN LET IsString(v) == v.type = "string"
             strs == SelectSeq(data[key].val, IsString)
         IN [refs |-> [i \in 1..Len(strs) |-> strs[i].val], err |-> "nil"]
    ELSE [refs |-> <<>>, err |-> "expected string array"]

getStringSliceFromInterface(data, key) ==
    IF key \notin DOMAIN data THEN [refs |-> <<>>, err |-> "nil"]
    ELSE IF data[key].type = "array" THEN StringsOf(data[key].val)
    ELSE [refs |-> <<>>, err |-> "expected string array"]

NoMembership(err) ==
    [op |-> "GetMembership", membership |-> FALSE,
     included |-> <<>>, excluded |-> <<>>, err |-> err]

\* what GetMembership returns when the request got the answer snap
MembershipResult(snap) ==
    IF ~snap.exists
    THEN [op |-> "GetMembership", membership |-> TRUE,
          included |-> <<>>, excluded |-> <<>>, err |-> "nil"]
    ELSE LET includedRefs == getStringSliceFromInterface(snap.data, bigSegmentsIncludedAttr)
             excludedRefs == getStringSliceFromInterface(snap.data, bigSegmentsExcludedAttr)
         IN IF includedRefs.err # "nil" THEN NoMembership(includedRefs.err)
            ELSE IF excludedRefs.err # "nil" THEN NoMembership(excludedRefs.err)
            ELSE [op |-> "GetMembership", membership |-> TRUE,
                  included |-> includedRefs.refs, excluded |-> excludedRefs.refs,
                  err |-> "nil"]

GetMembership(contextHashKey, reachable) ==
    /\ Begin(BigSegmentStore, [op |-> "GetMembership",
                               contextHashKey |-> contextHashKey,
                               reachable |-> reachable])
    /\ readIdx' = [readIdx EXCEPT ![BigSegmentStore] = 0]
    /\ Return(BigSegmentStore, call'[BigSegmentStore],
              IF reachable /\ Usable(BigSegmentStore)
              THEN MembershipResult(Snapshot(docs,
                       bigSegmentMakeDocID(bigSegmentsUserDataKey, contextHashKey)))
              ELSE NoMembership("unavailable"))
    /\ UNCHANGED <<prefix, lifecycle, docs>>

----------------------------------------------------------------------------
(* Building a store *)

NoClient == "none"

\* the settings of a builder: the collection name, the project ID, whether
\* FirestoreClient supplied a connection, and whether firestore.NewClient
\* would fail
Builders ==
    [collection : {<<>>, <<"c">>}, projectID : {<<>>, <<"j">>},
     supplied : BOOLEAN, newClientFails : BOOLEAN]

\* makeClientAndContext with an empty project ID let through
makeClientAndContext_NoProjectCheck(p, builder) ==
    IF builder.supplied THEN [client |-> ExternalClient, err |-> "nil"]
    ELSE IF builder.newClientFails THEN [client |-> NoClient, err |-> "NewClient failed"]
    ELSE [client |-> p, err |-> "nil"]

\* makeClientAndContext: the connection of store p, the builder's or a new one
makeClientAndContext(p, builder) ==
    IF builder.supplied THEN [client |-> ExternalClient, err |-> "nil"]
    ELSE IF builder.projectID = <<>>
    THEN [client |-> NoClient, err |-> "project ID is required"]
    ELSE IF builder.newClientFails
    THEN [client |-> NoClient, err |-> "NewClient failed"]
    ELSE [client |-> p, err |-> "nil"]

NoStore(err) == [store |-> FALSE, client |-> NoClient, ownsClient |-> FALSE, err |-> err]

newFirestoreDataStoreImpl(p, builder) ==
    IF builder.collection = <<>> THEN NoStore("collection name is required")
    ELSE LET made == makeClientAndContext(p, builder)
         IN IF made.err # "nil" THEN NoStore(made.err)
            ELSE [store |-> TRUE, client |-> made.client, ownsClient |-> FALSE,
                  err |-> "nil"]

newFirestoreBigSegmentStoreImpl(builder) ==
    IF builder.collection = <<>> THEN NoStore("collection name is required")
    ELSE IF builder.supplied
    THEN [store |-> TRUE, client |-> ExternalClient, ownsClient |-> FALSE, err |-> "nil"]
    ELSE LET made == makeClientAndContext(BigSegmentStore, builder)
         IN IF made.err # "nil" THEN NoStore(made.err)
            ELSE [store |-> TRUE, client |-> made.client, ownsClient |-> TRUE,
                  err |-> "nil"]

\* Build: the constructor's result becomes the store p, or no store
Build(p, builder, built) ==
    /\ pc[p] = "unbuilt"
    /\ calls' = calls + 1
    /\ call' = [call EXCEPT ![p] =
                   [op |-> "Build", builder |-> builder, n |-> calls + 1, pre |-> returned]]
    /\ pc' = [pc EXCEPT ![p] = IF built.store THEN "done" ELSE "failed"]
    /\ ret' = [ret EXCEPT ![p] = [op |-> "Build", store |-> built.store, err |-> built.err]]
    /\ returned' = returned \cup {calls + 1}
    /\ client' = [client EXCEPT ![p] = built.client]
    /\ connOpen' = IF built.client = p THEN [connOpen EXCEPT ![p] = TRUE] ELSE connOpen
    /\ ownsClient' = IF p = BigSegmentStore THEN built.ownsClient ELSE ownsClient
    /\ UNCHANGED <<prefix, docs, cancelled, txRead, unusedOldIDs, readIdx, operations,
                   pending, failedOps, submitted, atCall, prevCall>>

createPersistentDataStore(p, builder) ==
    Build(p, builder, newFirestoreDataStoreImpl(p, builder))

createBigSegmentStore(builder) ==
    Build(BigSegmentStore, builder, newFirestoreBigSegmentStoreImpl(builder))

----------------------------------------------------------------------------
(* Specifications *)

\* the datasets that hold only the given kinds
DataSetsOf(kinds) ==
    {d \in AllDataSets : \A i \in 1..Len(d) : d[i].Kind \in kinds}

\* the calls a client can start, on the given kinds
Calls(p, kinds) ==
    \/ \E kind \in kinds, key \in Keys, newItem \in ItemDescriptors :
          UpsertCall(p, kind, key, newItem)
    \/ \E allData \in DataSetsOf(kinds) : InitCall(p, allData)
    \/ \E reachable \in BOOLEAN : IsInitialized(p, reachable)

\* the steps of a call in progress when the store answers every request
Progress(p) ==
    \/ TxBody(p)
    \/ TxCommit(p)
    \/ InitRead(p)
    \/ InitBuild(p)
    \/ InitSubmit(p)
    \/ \E o \in pending[p] : BulkApply(p, o)
    \/ InitReturn(p)

\* the steps in which a request fails
Failures(p) ==
    \/ TxFail(p)
    \/ InitReadFail(p)
    \/ \E i \in 1..(MaxItems + Cardinality(Kinds) * NumKeys + 1) : InitEnqueueFail(p, i)
    \/ \E o \in pending[p] : BulkFail(p, o)

\* one client, a store that answers: every call runs to its end before the next
NextSeq ==
    \/ calls < MaxCalls /\ Calls("c1", Kinds)
    \/ Progress("c1")

SpecSeq == Init /\ [][NextSeq]_vars

\* two clients whose calls interleave on one kind, and requests that can fail
Next ==
    \E p \in Clients :
        \/ calls < MaxCalls /\ Calls(p, {Features})
        \/ Progress(p)
        \/ Failures(p)

Spec == Init /\ [][Next]_vars

\* two clients that only upsert, on one kind; their transactions interleave
NextUpserts ==
    \E p \in Clients :
        \/ /\ calls < MaxUpserts
           /\ \E key \in Keys, newItem \in ItemDescriptors :
                 UpsertCall(p, Features, key, newItem)
        \/ TxBody(p)
        \/ TxCommit(p)
        \/ TxFail(p)

SpecUpserts == Init /\ [][NextUpserts]_vars

\* the keys a caller can pass: those of the items, and the empty string
EmptyKey == <<>>
AnyKeys == Keys \cup {EmptyKey}

\* one client that writes and reads back, on one kind; the store answers all
\* requests but the reads the caller's input marks as failing
NextReads ==
    \/ /\ calls < MaxReadCalls
       /\ \/ \E key \in AnyKeys, newItem \in ItemDescriptors :
                UpsertCall("c1", Features, key, newItem)
          \/ \E allData \in DataSetsOf({Features}) : InitCall("c1", allData)
          \/ \E key \in AnyKeys, reachable \in BOOLEAN :
                Get("c1", Features, key, reachable)
          \/ \E reachable \in BOOLEAN : IsStoreAvailable("c1", reachable)
    \/ Progress("c1")

SpecReads == Init /\ [][NextReads]_vars

\* the prefixes of the stores that share the collection
SharedPrefixes == Prefixes \cup {<<"q">>}

\* the documents a store of prefix pre has after an Init with every key of
\* every kind: its items and its inited document
StoreDocsOf(pre) ==
    [id \in {makeDocIDOf(pre, kind, key) : kind \in Kinds, key \in Keys}
            \cup {initedDocIDOf(pre)} |->
        IF id = initedDocIDOf(pre)
        THEN [namespace |-> initedKeyOf(pre), key |-> initedKeyOf(pre)]
        ELSE LET kk == CHOOSE x \in Kinds \X Keys : makeDocIDOf(pre, x[1], x[2]) = id
             IN encodeItemOf(pre, kk[1], kk[2],
                             [Version |-> 1, SerializedItem |-> OtherItem])]

\* the documents of the stores of the prefixes pres, in one collection
SharedDocs(pres) ==
    [id \in UNION {DOMAIN StoreDocsOf(pre) : pre \in pres} |->
        StoreDocsOf(CHOOSE pre \in pres : id \in DOMAIN StoreDocsOf(pre))[id]]

\* a new store over a collection that stores of other prefixes have filled
InitPrefix ==
    /\ prefix \in Prefixes
    /\ \E pres \in SUBSET (SharedPrefixes \ {prefix}) :
          /\ pres # {}
          /\ Constructed(SharedDocs(pres))
    /\ Built([p \in Stores |-> FALSE])

\* one client of the new store, every kind, a store that answers
NextPrefix ==
    \/ calls < MaxPrefixCalls /\ Calls("c1", Kinds)
    \/ Progress("c1")

SpecPrefix == InitPrefix /\ [][NextPrefix]_vars

\* a data store and a big-segment store, each built with or without a
\* connection of the caller's, over an empty collection
InitLife ==
    /\ prefix \in Prefixes
    /\ Constructed(NoDocs)
    /\ \E supplied \in [Stores -> BOOLEAN] :
          /\ ~supplied["c2"]
          /\ Built(supplied)

\* the datasets of at most one item of the kind
LifeDataSets == {d \in DataSetsOf({Features}) : NumItems(d) <= 1}

\* the two stores are used and closed; requests can fail
NextLife ==
    \/ /\ calls < MaxLifeCalls
       /\ \/ \E key \in Keys, newItem \in InitItemDescriptors :
                UpsertCall("c1", Features, key, newItem)
          \/ \E allData \in LifeDataSets : InitCall("c1", allData)
          \/ \E key \in Keys : Get("c1", Features, key, TRUE)
          \/ GetAll("c1", Features, TRUE)
          \/ Close("c1")
          \/ GetMetadata(TRUE)
          \/ \E contextHashKey \in HashKeys : GetMembership(contextHashKey, TRUE)
          \/ BigSegmentClose
    \/ Progress("c1")
    \/ Failures("c1")

SpecLife == InitLife /\ [][NextLife]_vars

\* the strings without the delimiter, up to MaxLen characters
IdStrings == UNION {[1..k -> {"a", "b"}] : k \in 1..MaxLen}
IdPrefixes == {<<>>} \cup IdStrings
IdNames == IdStrings \cup {InitedName}

\* a store under any prefix without the delimiter, over an empty collection
InitIdentity ==
    /\ prefix \in IdPrefixes
    /\ Constructed(NoDocs)
    /\ Built([p \in Stores |-> FALSE])

\* the identifiers the two stores give to the pair (namespace, key)
IdentityCall(p, namespace, key) ==
    /\ Begin(p, [op |-> "makeDocID", namespace |-> namespace, key |-> key])
    /\ Return(p, call'[p],
              [op |-> "makeDocID",
               docID |-> makeDocID(namespace, key),
               partsID |-> makeDocIDFromParts(namespace, key),
               bigSegmentID |-> bigSegmentMakeDocID(namespace, key),
               initedDocID |-> initedDocID])
    /\ UNCHANGED <<prefix, lifecycle, docs, readIdx>>

\* identifiers are computed for pairs of names, one pair at a time
NextIdentity ==
    /\ calls < MaxIdCalls
    /\ \E p \in Clients, namespace \in IdNames, key \in IdNames :
          IdentityCall(p, namespace, key)

SpecIdentity == InitIdentity /\ [][NextIdentity]_vars

\* The big-segment documents are written by a synchronizer outside the store.

\* makeTestDocID and makeTestNamespace: the identifier and the namespace the
\* writer gives to a document
makeTestNamespace(pre, namespace) ==
    IF pre = <<>> THEN namespace ELSE pre \o Colon \o namespace

makeTestDocID(pre, namespace, key) ==
    (IF pre # <<>> THEN pre \o Colon \o namespace ELSE namespace) \o Colon \o key

\* int64(metadata.LastUpToDate): a time from 2^63 on is stored negative
Int64(u) == IF u.wrapped THEN -u.val ELSE u.val

\* the times of synchronization: none, a time, and a time from 2^63 on
LastUpToDateValues ==
    {ZeroMetadata, [wrapped |-> FALSE, val |-> 5], [wrapped |-> TRUE, val |-> 1]}

Int64Field(n) == [type |-> "int64", val |-> n]
StringField(s) == [type |-> "string", val |-> s]
ArrayField(a) == [type |-> "array", val |-> a]
Unset == [type |-> "unset"]

\* a document of the fields namespace and key and of the attributes that are set
BigSegmentDoc(namespace, key, attrs) ==
    [f \in {fieldNamespace, fieldKey} \cup {a \in DOMAIN attrs : attrs[a] # Unset} |->
        IF f = fieldNamespace THEN namespace
        ELSE IF f = fieldKey THEN key
        ELSE attrs[f]]

\* setTestMetadata: the metadata document with the marker set to field
MetadataDoc(pre, field) ==
    BigSegmentDoc(makeTestNamespace(pre, bigSegmentsMetadataKey), bigSegmentsMetadataKey,
                  [a \in {bigSegmentsSyncTimeAttr} |-> field])

\* setTestSegments: the record of a context with its two lists of references
MembershipDoc(pre, contextHashKey, includedField, excludedField) ==
    BigSegmentDoc(makeTestNamespace(pre, bigSegmentsUserDataKey), contextHashKey,
                  [a \in {bigSegmentsIncludedAttr, bigSegmentsExcludedAttr} |->
                      IF a = bigSegmentsIncludedAttr THEN includedField ELSE excludedField])

\* what a marker can be stored as: not at all, a time, or text
MarkerFields ==
    {Unset, StringField("t")} \cup {Int64Field(Int64(u)) : u \in LastUpToDateValues}

\* what a list of references can be stored as: not at all, lists of strings,
\* a list with an element that is no string, or something that is no list
RefFields ==
    {Unset, ArrayField(<<>>), ArrayField(<<StringField("s1")>>),
     ArrayField(<<StringField("s1"), StringField("s2")>>),
     ArrayField(<<StringField("s1"), Int64Field(7)>>),
     StringField("s1")}

BsHashKeys == {<<"h">>, <<"g">>}

\* a big-segment store over a collection the synchronizer has written: the
\* collection holds at most one metadata document and one membership record
InitBigSegments ==
    /\ prefix \in Prefixes
    /\ \E m \in {NoDocs} \cup
                {SetDoc(NoDocs,
                        makeTestDocID(prefix, bigSegmentsMetadataKey, bigSegmentsMetadataKey),
                        MetadataDoc(prefix, field)) : field \in MarkerFields},
          u \in {NoDocs} \cup
                {SetDoc(NoDocs, makeTestDocID(prefix, bigSegmentsUserDataKey, k),
                        MembershipDoc(prefix, k, inc, exc)) :
                    k \in BsHashKeys, inc \in RefFields, exc \in RefFields} :
          Constructed(m @@ u)
    /\ Built([p \in Stores |-> FALSE])

\* the store is queried, and the collection can be out of reach
NextBigSegments ==
    /\ calls < MaxBsCalls
    /\ \/ \E reachable \in BOOLEAN : GetMetadata(reachable)
       \/ \E contextHashKey \in BsHashKeys, reachable \in BOOLEAN :
             GetMembership(contextHashKey, reachable)

SpecBigSegments == InitBigSegments /\ [][NextBigSegments]_vars

\* no store is built yet; the caller has a connection it can supply
InitBuilder ==
    /\ prefix \in Prefixes
    /\ docs = NoDocs
    /\ pc = [p \in Stores |-> "unbuilt"]
    /\ call = [p \in Stores |-> NoCall]
    /\ ret = [p \in Stores |-> NoRet]
    /\ txRead = [p \in Stores |-> [exists |-> FALSE]]
    /\ unusedOldIDs = [p \in Stores |-> NoDocs]
    /\ readIdx = [p \in Stores |-> 0]
    /\ operations = [p \in Stores |-> <<>>]
    /\ pending = [p \in Stores |-> {}]
    /\ failedOps = [p \in Stores |-> {}]
    /\ submitted = [p \in Stores |-> {}]
    /\ atCall = [p \in Stores |-> NoDocs]
    /\ calls = 0
    /\ returned = {}
    /\ prevCall = [p \in Stores |-> [call |-> NoCall, ret |-> NoRet]]
    /\ cancelled = [p \in Stores |-> FALSE]
    /\ client = [p \in Stores |-> NoClient]
    /\ ownsClient = FALSE
    /\ connOpen = [c \in Conns |-> c = ExternalClient]

\* a data store and a big-segment store are built from any builder, and the
\* stores that were built are used and closed
NextBuilder ==
    /\ calls < MaxBuildCalls
    /\ \/ \E builder \in Builders : createPersistentDataStore("c1", builder)
       \/ \E builder \in Builders : createBigSegmentStore(builder)
       \/ IsInitialized("c1", TRUE)
       \/ GetMetadata(TRUE)
       \/ Close("c1")
       \/ BigSegmentClose

SpecBuilder == InitBuilder /\ [][NextBuilder]_vars

\* the collection after the operations ops, applied in their order
RECURSIVE ApplyOps(_, _)
ApplyOps(store, ops) ==
    IF ops = <<>> THEN store ELSE ApplyOps(ApplyOp(store, Head(ops)), Tail(ops))

\* the documents of the store after an Init with allData over an empty
\* collection: the items that fit and the inited document
DocsAfterInit(allData) ==
    ApplyOps(NoDocs, WriteOps(FlatItems(allData)) \o <<InitedOp>>)

\* a store that an earlier Init has filled
InitRace ==
    /\ prefix \in Prefixes
    /\ \E allData \in DataSetsOf({Features}) : Constructed(DocsAfterInit(allData))
    /\ Built([p \in Stores |-> FALSE])

\* one client initializes the store again; while its Init has read the
\* existing IDs and has not returned, the other client upserts
NextRace ==
    \/ /\ calls < MaxRaceCalls
       /\ \/ \E allData \in DataSetsOf({Features}) : InitCall("c1", allData)
          \/ /\ pc["c1"] \in {"initBuild", "initSubmit", "initFlush"}
             /\ \E key \in Keys, newItem \in ItemDescriptors :
                   UpsertCall("c2", Features, key, newItem)
    \/ InitRead("c1")
    \/ InitBuild("c1")
    \/ InitSubmit("c1")
    \/ \E o \in pending["c1"] : BulkApply("c1", o)
    \/ InitReturn("c1")
    \/ TxBody("c2")
    \/ TxCommit("c2")

SpecRace == InitRace /\ [][NextRace]_vars

\* a store that an Init has filled, in a collection that also holds the
\* documents of the stores of the other prefixes
InitGetAll ==
    /\ prefix \in Prefixes
    /\ \E allData \in AllDataSets :
          Constructed(DocsAfterInit(allData) @@ SharedDocs(SharedPrefixes \ {prefix}))
    /\ Built([p \in Stores |-> FALSE])

\* one client upserts items of every kind, also under the empty key, and
\* lists the kinds; the query can fail
NextGetAll ==
    \/ /\ calls < MaxGetAllCalls
       /\ \/ \E kind \in Kinds, key \in AnyKeys, newItem \in ItemDescriptors :
                UpsertCall("c1", kind, key, newItem)
          \/ \E kind \in Kinds, reachable \in BOOLEAN : GetAll("c1", kind, reachable)
    \/ TxBody("c1")
    \/ TxCommit("c1")

SpecGetAll == InitGetAll /\ [][NextGetAll]_vars

\* payloads whose documents have estimates on both sides of the limit
SizePayloads == {<<[byte |-> "j", n |-> len]>> : len \in 899964..899968}

\* the size guard is asked about the document of an item, the fields being
\* visited in some order
CheckSize(p, kind, key, item, order) ==
    /\ Begin(p, [op |-> "checkSizeLimit", kind |-> kind, key |-> key, item |-> item,
                 order |-> order])
    /\ Return(p, call'[p],
              [op |-> "checkSizeLimit",
               ok |-> checkSizeLimit(encodeItem(kind, key, item)),
               okInOrder |-> checkSizeLimitInOrder(encodeItem(kind, key, item), order)])
    /\ UNCHANGED <<prefix, lifecycle, docs, readIdx>>

NextSize ==
    /\ calls < MaxSizeCalls
    /\ \E key \in Keys, item \in [Version : Versions, SerializedItem : SizePayloads],
          order \in Orders({fieldNamespace, fieldKey, fieldVersion, fieldItem}) :
          CheckSize("c1", Features, key, item, order)

SpecSize == Init /\ [][NextSize]_vars

----------------------------------------------------------------------------
(* Vocabulary of the properties *)

Done(p, op) == pc[p] = "done" /\ call[p].op = op

\* an Upsert that got to its transaction and whose transaction did not fail
UpsertRan(p) ==
    /\ Done(p, "Upsert")
    /\ ret[p].err = "nil"
    /\ checkSizeLimit(encodeItem(call[p].kind, call[p].key, call[p].newItem))

UpsertID(p) == makeDocID(call[p].kind, call[p].key)
UpsertData(p) == encodeItem(call[p].kind, call[p].key, call[p].newItem)

\* an Init that returned nil and whose every job was applied
InitApplied(p) ==
    /\ Done(p, "Init")
    /\ ret[p].err = "nil"
    /\ failedOps[p] = {}

ItemFits(kind, keyed) == checkSizeLimit(encodeItem(kind, keyed.Key, keyed.Item))

Fitting(coll) == {j \in 1..Len(coll.Items) : ItemFits(coll.Kind, coll.Items[j])}
Oversized(coll) == {j \in 1..Len(coll.Items) : ~ItemFits(coll.Kind, coll.Items[j])}

ItemID(coll, j) == makeDocID(coll.Kind, coll.Items[j].Key)

SentinelExists == initedDocID \in DOMAIN docs

----------------------------------------------------------------------------
(* Properties of one client's calls, under SpecSeq *)

\* C1: an Upsert whose item passes the size guard and whose transaction does
\* not fail writes the document and returns applied=true exactly when the
\* document was absent or held a strictly lower version; otherwise (equal
\* versions included) it returns (false, nil) and the collection is unchanged.
C1_UpsertAppliedIffNewer ==
    \A p \in Clients :
        UpsertRan(p) =>
            LET before == Snapshot(atCall[p], UpsertID(p))
                newer == \/ ~before.exists
                         \/ before.data[fieldVersion] < call[p].newItem.Version
            IN /\ ret[p].applied = newer
               /\ docs = IF newer
                         THEN SetDoc(atCall[p], UpsertID(p), UpsertData(p))
                         ELSE atCall[p]

\* an Upsert with the stored version and another payload was turned down
C1_Witness ==
    \E p \in Clients :
        /\ UpsertRan(p)
        /\ UpsertID(p) \in DOMAIN atCall[p]
        /\ atCall[p][UpsertID(p)][fieldVersion] = call[p].newItem.Version
        /\ atCall[p][UpsertID(p)][fieldItem] # call[p].newItem.SerializedItem
        /\ ~ret[p].applied

\* C5: after an Init without concurrent writers whose batch was applied in
\* full, each kind of allData holds exactly the fitting items of allData, as
\* given, and IsInitialized() is true.
C5_InitReconciles ==
    \A p \in Clients :
        InitApplied(p) =>
            /\ \A i \in 1..Len(call[p].allData) :
                  LET coll == call[p].allData[i]
                  IN /\ QueryNamespace(docs, namespaceForKind(coll.Kind))
                            = {ItemID(coll, j) : j \in Fitting(coll)}
                     /\ \A j \in Fitting(coll) :
                            docs[ItemID(coll, j)]
                                = [namespace |-> namespaceForKind(coll.Kind),
                                   key |-> coll.Items[j].Key,
                                   version |-> coll.Items[j].Item.Version,
                                   item |-> coll.Items[j].Item.SerializedItem]
            /\ GetSucceeds(docs, initedDocID, TRUE)

\* an Init replaced the key of a kind by another key
C5_Witness ==
    \E p \in Clients :
        /\ InitApplied(p)
        /\ \E i \in 1..Len(call[p].allData) :
              LET coll == call[p].allData[i]
                  before == QueryNamespace(atCall[p], namespaceForKind(coll.Kind))
                  after == QueryNamespace(docs, namespaceForKind(coll.Kind))
              IN /\ before \ after # {}
                 /\ after \ before # {}

\* C6: an Init with the dataset of the Init just before it (both applied in
\* full, no writer in between) leaves the collection as it found it, the
\* inited document included, and enqueues no delete.
C6_InitIdempotent ==
    \A p \in Clients :
        (/\ InitApplied(p)
         /\ prevCall[p].call.op = "Init"
         /\ prevCall[p].ret.err = "nil"
         /\ prevCall[p].call.allData = call[p].allData)
        => /\ docs = atCall[p]
           /\ SentinelExists
           /\ {o \in submitted[p] : o.type = "delete"} = {}

\* the second of two Inits with one dataset of two items, one of them oversized
C6_Witness ==
    \E p \in Clients :
        /\ InitApplied(p)
        /\ prevCall[p].call.op = "Init"
        /\ prevCall[p].call.allData = call[p].allData
        /\ \E i \in 1..Len(call[p].allData) :
              /\ Fitting(call[p].allData[i]) # {}
              /\ Oversized(call[p].allData[i]) # {}

\* C8: IsInitialized() on a reachable store returns true exactly when the
\* inited document of the store's prefix exists: false as the first call on a
\* store over an empty collection, true right after an Init that returned nil.
C8_IsInitializedIffSentinel ==
    \A p \in Clients :
        (Done(p, "IsInitialized") /\ call[p].reachable) =>
            /\ ret[p].value = (InitedOp.ref \in DOMAIN docs)
            /\ call[p].n = 1 => ~ret[p].value
            /\ (prevCall[p].call.op = "Init" /\ prevCall[p].ret.err = "nil")
                   => ret[p].value

\* IsInitialized() returned true after an Init
C8_Witness ==
    \E p \in Clients :
        /\ Done(p, "IsInitialized")
        /\ call[p].reachable
        /\ prevCall[p].call.op = "Init"
        /\ ret[p].value

\* C10: an Init whose dataset has an oversized item returns nil, stores every
\* fitting item and leaves no document under the oversized item's key, also
\* when one was stored before.
C10_InitDropsOversized ==
    \A p \in Clients :
        (/\ InitApplied(p)
         /\ \E i \in 1..Len(call[p].allData) : Oversized(call[p].allData[i]) # {})
        => /\ ret[p].err = "nil"
           /\ \A i \in 1..Len(call[p].allData) :
                 LET coll == call[p].allData[i]
                 IN /\ \A j \in Fitting(coll) :
                          /\ ItemID(coll, j) \in DOMAIN docs
                          /\ docs[ItemID(coll, j)][fieldItem]
                                = coll.Items[j].Item.SerializedItem
                    /\ \A j \in Oversized(coll) : ItemID(coll, j) \notin DOMAIN docs

\* an oversized item came for a stored key, next to a fitting one
C10_Witness ==
    \E p \in Clients :
        /\ InitApplied(p)
        /\ \E i \in 1..Len(call[p].allData) :
              LET coll == call[p].allData[i]
              IN /\ Fitting(coll) # {}
                 /\ \E j \in Oversized(coll) : ItemID(coll, j) \in DOMAIN atCall[p]

\* an Upsert has returned whose document is estimated above the threshold
UpsertOversized(p) ==
    /\ Done(p, "Upsert")
    /\ EstimatedSize(UpsertData(p)) > firestoreMaxDocSize

\* C11: an Upsert whose item exceeds the size threshold returns (false, nil)
\* and leaves the whole collection as it was: a value stored before under the
\* same key stays, every other document too.
C11_OversizedUpsertIgnored ==
    \A p \in Clients :
        UpsertOversized(p) =>
            /\ ret[p].applied = FALSE
            /\ ret[p].err = "nil"
            /\ docs = atCall[p]

\* an oversized item of a higher version came for a stored key
C11_Witness ==
    \E p \in Clients :
        /\ UpsertOversized(p)
        /\ UpsertID(p) \in DOMAIN atCall[p]
        /\ atCall[p][UpsertID(p)][fieldVersion] < call[p].newItem.Version

----------------------------------------------------------------------------
(* Properties of reads after writes, under SpecReads *)

\* the descriptor a stored item document holds
StoredItem(data) ==
    [Version |-> data[fieldVersion], SerializedItem |-> data[fieldItem]]

\* the items of the dataset that have the kind and key
ItemsFor(allData, kind, key) ==
    {it.item : it \in {x \in {FlatItems(allData)[i] : i \in 1..Len(FlatItems(allData))} :
                          x.kind = kind /\ x.key = key}}

\* C15: Get(kind, key) on a store that answers returns the version and the
\* payload of the document of the key, which are those of the last write that
\* took effect (an applied Upsert, a fitting item of an Init); it returns
\* NotFound with a nil error when there is no document (none written, or
\* dropped by Init); an error comes only from a store that does not answer or
\* from a document decodeDocument rejects (an empty key).
C15_GetReturnsLastWrite ==
    \A p \in Clients :
        Done(p, "Get") =>
            LET id == makeDocID(call[p].kind, call[p].key)
                before == prevCall[p]
            IN /\ ~call[p].reachable => ret[p].err # "nil"
               /\ call[p].reachable =>
                    /\ id \notin DOMAIN docs =>
                          (ret[p].item = NotFound /\ ret[p].err = "nil")
                    /\ (id \in DOMAIN docs /\ call[p].key # EmptyKey) =>
                          (ret[p].item = StoredItem(docs[id]) /\ ret[p].err = "nil")
                    /\ (id \in DOMAIN docs /\ call[p].key = EmptyKey) =>
                          ret[p].err # "nil"
                    /\ (/\ before.call.op = "Upsert"
                        /\ before.ret.applied
                        /\ before.call.kind = call[p].kind
                        /\ before.call.key = call[p].key
                        /\ call[p].key # EmptyKey)
                       => ret[p].item = before.call.newItem
                    /\ (before.call.op = "Init" /\ before.ret.err = "nil") =>
                          LET given == ItemsFor(before.call.allData,
                                                call[p].kind, call[p].key)
                              kept == {it \in given :
                                         checkSizeLimit(encodeItem(call[p].kind,
                                                                   call[p].key, it))}
                          IN /\ \A it \in kept : ret[p].item = it
                             /\ (kept = {} /\ before.call.allData # <<>>) =>
                                    ret[p].item = NotFound

\* a Get after an Upsert that replaced the item an Init had written
C15_Witness ==
    \E p \in Clients :
        /\ Done(p, "Get")
        /\ call[p].reachable
        /\ prevCall[p].call.op = "Upsert"
        /\ prevCall[p].ret.applied
        /\ prevCall[p].call.key = call[p].key
        /\ ret[p].item = prevCall[p].call.newItem
        /\ ret[p].item.Version = 2

\* C16: IsStoreAvailable() returns true whenever the store answers, whether
\* the inited document is found or not, and false only when it does not.
C16_AvailableIffReachable ==
    \A p \in Clients :
        Done(p, "IsStoreAvailable") => ret[p].value = call[p].reachable

----------------------------------------------------------------------------
(* Properties of racing Upserts, under SpecUpserts *)

\* two Upserts that ran on one document, lo with the lower version
UpsertPair(lo, hi) ==
    /\ lo # hi
    /\ UpsertRan(lo)
    /\ UpsertRan(hi)
    /\ UpsertID(lo) = UpsertID(hi)
    /\ call[lo].newItem.Version < call[hi].newItem.Version

\* the one of the two that was called first
First(lo, hi) == IF call[lo].n < call[hi].n THEN lo ELSE hi

\* every other call had returned when the first of the two was made
Undisturbed(lo, hi) ==
    (1..calls) \ {call[lo].n, call[hi].n} \subseteq call[First(lo, hi)].pre

\* the document was absent or below lo's version when the first of the two was made
StartsBelow(lo, hi) ==
    LET before == Snapshot(atCall[First(lo, hi)], UpsertID(lo))
    IN \/ ~before.exists
       \/ before.data[fieldVersion] < call[lo].newItem.Version

\* neither of the two had returned when the other was called
Overlapping(lo, hi) ==
    /\ call[lo].n \notin call[hi].pre
    /\ call[hi].n \notin call[lo].pre

\* C2: two Upserts of one key with versions v1 < v2, made on a key that is
\* absent or below v1, leave version v2 (the higher Upsert's document) once
\* both have returned, in either order of arrival and however their
\* transactions interleave.
C2_HigherVersionWins ==
    \A lo, hi \in Clients :
        (UpsertPair(lo, hi) /\ Undisturbed(lo, hi) /\ StartsBelow(lo, hi))
        => /\ UpsertID(hi) \in DOMAIN docs
           /\ docs[UpsertID(hi)][fieldVersion] = call[hi].newItem.Version
           /\ docs[UpsertID(hi)] = UpsertData(hi)

\* the two raced on a stored document of a lower version, and both were applied
C2_Witness ==
    \E lo, hi \in Clients :
        /\ UpsertPair(lo, hi)
        /\ Undisturbed(lo, hi)
        /\ StartsBelow(lo, hi)
        /\ Overlapping(lo, hi)
        /\ UpsertID(lo) \in DOMAIN atCall[First(lo, hi)]
        /\ ret[lo].applied
        /\ ret[hi].applied

\* C3 as stated: of two Upserts of one key with versions v1 < v2, the one with
\* v1 returns applied=false, in either order of arrival.
C3_LowerAlwaysRejected ==
    \A lo, hi \in Clients :
        (UpsertPair(lo, hi) /\ Undisturbed(lo, hi) /\ StartsBelow(lo, hi))
        => ~ret[lo].applied

\* C3, amended: the Upsert with the lower version returns applied=false when
\* it is called after the higher one has returned; when it has returned before
\* the higher one is called, on a key absent or below v1, both are applied.
C3_LowerRejectedAfterHigher ==
    \A lo, hi \in Clients :
        UpsertPair(lo, hi) =>
            /\ call[hi].n \in call[lo].pre => ~ret[lo].applied
            /\ (/\ call[lo].n \in call[hi].pre
                /\ Undisturbed(lo, hi)
                /\ StartsBelow(lo, hi))
               => (ret[lo].applied /\ ret[hi].applied)

\* the higher version was applied, then the lower one came
C3_Witness ==
    \E lo, hi \in Clients :
        /\ UpsertPair(lo, hi)
        /\ call[hi].n \in call[lo].pre
        /\ ret[hi].applied
        /\ ~ret[lo].applied

----------------------------------------------------------------------------
(* Properties of interleaved Inits and Upserts, under Spec *)

\* a step lowers no version of a document that stays
NoVersionLowered ==
    \A id \in DOMAIN docs \cap DOMAIN docs' :
        (fieldVersion \in DOMAIN docs[id] /\ fieldVersion \in DOMAIN docs'[id])
        => docs'[id][fieldVersion] >= docs[id][fieldVersion]

\* C4 as stated: across any interleaving of Init and Upsert, the version
\* stored in a document never decreases while the document exists.
C4_VersionNeverDecreases == [][NoVersionLowered]_vars

\* C4, amended: no step of an Upsert lowers a stored version; a version goes
\* down only when a write of Init replaces the document by its dataset's item.
C4_OnlyInitLowersVersion ==
    [][NoVersionLowered \/ \E p \in Clients : \E o \in pending[p] : BulkApply(p, o)]_vars

\* an Upsert raised a document while an Init had lowered or was writing it
C4_Witness ==
    \E p, q \in Clients :
        /\ UpsertRan(p)
        /\ ret[p].applied
        /\ UpsertID(p) \in DOMAIN atCall[p]
        /\ call[q].op = "Init"
        /\ pc[q] = "initFlush"

\* the item documents of the collection
ItemDocs == {id \in DOMAIN docs : fieldItem \in DOMAIN docs[id]}

\* the set operations that are built, enqueued or in flight
SetsUnderWay ==
    {o \in UNION {pending[p] \cup submitted[p]
                     \cup {operations[p][i] : i \in 1..Len(operations[p])} :
                  p \in Clients} : o.type = "set"}

\* C12: in every state reachable through Init and Upsert calls, no item
\* document has an estimated size above firestoreMaxDocSize, and no write of
\* such a document is built or handed to the BulkWriter.
C12_NoOversizedDocument ==
    /\ \A id \in ItemDocs : EstimatedSize(docs[id]) <= firestoreMaxDocSize
    /\ \A o \in SetsUnderWay : EstimatedSize(o.data) <= firestoreMaxDocSize

\* an Init with an oversized item has returned and item documents are stored
C12_Witness ==
    /\ ItemDocs # {}
    /\ \E p \in Clients :
          /\ Done(p, "Init")
          /\ submitted[p] # {}
          /\ \E i \in 1..Len(call[p].allData) : Oversized(call[p].allData[i]) # {}

\* C13: if a write or delete of Init's batch fails, Init returns an error
\* instead of nil.
C13_InitFailsWhenJobFails ==
    \A p \in Clients :
        (Done(p, "Init") /\ failedOps[p] # {}) => ret[p].err # "nil"

\* the call of p returns in this step, and it is a call of op
Returns(p, op) ==
    /\ call'[p].op = op
    /\ call'[p].n \in returned' \ returned

\* C14: a version check lost in the transaction makes Upsert return
\* (false, nil), never an error; an error comes only from a failure of the
\* store during the transaction, with applied=false and nothing written.
C14_ConflictIsNoError ==
    [][\A p \in Clients :
          Returns(p, "Upsert") =>
              /\ TxBody(p) => (ret'[p].applied = FALSE /\ ret'[p].err = "nil")
              /\ ret'[p].err # "nil" =>
                    (TxFail(p) /\ ret'[p].applied = FALSE /\ docs' = docs)]_vars

\* one Upsert lost its version check and another met a failing store
C14_Witness ==
    \E p, q \in Clients :
        /\ UpsertRan(p)
        /\ UpsertID(p) \in DOMAIN atCall[p]
        /\ ~ret[p].applied
        /\ Done(q, "Upsert")
        /\ ret[q].err # "nil"

\* an Init has returned nil
InitCompleted ==
    \E p \in Clients :
        \/ Done(p, "Init") /\ ret[p].err = "nil"
        \/ prevCall[p].call.op = "Init" /\ prevCall[p].ret.err = "nil"

\* an Init is about to return, every job of its batch applied
InitAboutToReturn ==
    \E p \in Clients :
        pc[p] = "initFlush" /\ pending[p] = {} /\ failedOps[p] = {}

\* C7: the inited document exists if and only if an Init has completed: not
\* while jobs of a first Init are still pending, not after a first Init whose
\* batch was applied in part.  (Read with the leniency that the document may
\* appear as the last effect of an Init, just before it returns.)
C7_SentinelIffInitCompleted ==
    /\ SentinelExists => (InitCompleted \/ InitAboutToReturn)
    /\ InitCompleted => SentinelExists

\* a step keeps the inited document, content included, once it exists
SentinelKept ==
    SentinelExists =>
        (initedDocID \in DOMAIN docs' /\ docs'[initedDocID] = docs[initedDocID])

\* no delete of the inited document is built, enqueued or in flight
NoSentinelDelete ==
    \A p \in Clients :
        \A o \in pending[p] \cup submitted[p]
                 \cup {operations[p][i] : i \in 1..Len(operations[p])} :
            o.type = "delete" => o.ref # initedDocID

\* C9: once the inited document exists, no Init and no Upsert deletes or
\* changes it, and Init never enqueues its ID for deletion.
C9_SentinelStays == [][SentinelKept]_vars /\ []NoSentinelDelete

\* an Init that found the inited document in place has enqueued deletes
C9_Witness ==
    \E p \in Clients :
        /\ SentinelExists
        /\ call[p].op = "Init"
        /\ initedDocID \in DOMAIN atCall[p]
        /\ \E o \in submitted[p] : o.type = "delete"

----------------------------------------------------------------------------
(* Properties of closed stores, under SpecLife *)

\* a call made on store p after its Close has returned
ClosedCall(p) ==
    /\ pc[p] = "done"
    /\ cancelled[p]
    /\ call[p].op \in {"Get", "GetAll", "Upsert", "Init",
                        "GetMembership", "GetMetadata"}

\* C17: after Close() has returned on a store, every later Get, GetAll,
\* Upsert and Init on it, and every read of a closed big-segment store,
\* returns an error, and changes no document (c1 is the only store that
\* writes under SpecLife).
C17_ClosedStoreFails ==
    \A p \in Stores :
        ClosedCall(p) =>
            /\ ret[p].err # "nil"
            /\ p = "c1" => docs = atCall[p]

\* C18: Close() of a data store built with a connection of the caller's
\* leaves that connection open.
C18_SuppliedClientStaysOpen ==
    \A p \in Clients :
        (Done(p, "Close") /\ client[p] = ExternalClient) => connOpen[ExternalClient]

\* C19: Close() of the big-segment store cancels the store's context, closes
\* the connection if the store created it, and leaves a connection of the
\* caller's as it is.
C19_BigSegmentCloseByOwnership ==
    [][Returns(BigSegmentStore, "Close") =>
          /\ cancelled'[BigSegmentStore]
          /\ connOpen' = IF client[BigSegmentStore] = ExternalClient
                         THEN connOpen
                         ELSE [connOpen EXCEPT ![client[BigSegmentStore]] = FALSE]]_vars

\* the big-segment store was closed and the caller's connection still serves
\* the data store built with it
C19_Witness ==
    /\ Done(BigSegmentStore, "Close")
    /\ client[BigSegmentStore] = ExternalClient
    /\ client["c1"] = ExternalClient
    /\ cancelled[BigSegmentStore]
    /\ Done("c1", "Get")
    /\ call["c1"].n > call[BigSegmentStore].n
    /\ ret["c1"].err = "nil"

----------------------------------------------------------------------------
(* Properties of stores sharing a collection, under SpecPrefix *)

\* what a store of prefix pre reads from the collection: Get of every key,
\* GetAll of every kind, IsInitialized
ViewOf(pre, store) ==
    [get |-> [x \in Kinds \X Keys |->
                 GetResult(Snapshot(store, makeDocIDOf(pre, x[1], x[2])))],
     getAll |-> [kind \in Kinds |->
                    GetAllResults(store, namespaceForKindOf(pre, kind))],
     isInitialized |-> GetSucceeds(store, initedDocIDOf(pre), TRUE)]

\* C20: no step of an Init or an Upsert of the store of prefix P changes what
\* a store of another delimiter-free prefix Q reads from the collection they
\* share: Q's Get, GetAll and IsInitialized results stay, so none of Q's item
\* documents nor its inited document is created, overwritten or deleted.
C20_PrefixesIsolated ==
    [][\A pre \in SharedPrefixes \ {prefix} :
          ViewOf(pre, docs') = ViewOf(pre, docs)]_vars

\* next to the documents of another prefix, an Init of the store wrote its
\* items over its own and deleted a stale one
C20_Witness ==
    \E p \in Clients :
        /\ InitApplied(p)
        /\ \E o \in submitted[p] : o.type = "delete"
        /\ \E o \in submitted[p] : o.type = "set" /\ o.ref # initedDocID
        /\ \E pre \in SharedPrefixes \ {prefix} :
              /\ ViewOf(pre, docs).isInitialized
              /\ \A kind \in Kinds : DOMAIN ViewOf(pre, docs).getAll[kind] # {}

----------------------------------------------------------------------------
(* Properties under SpecIdentity *)

\* the two evaluations of the identity function that have been made
Identified(p, q) == Done(p, "makeDocID") /\ Done(q, "makeDocID")
SamePair(c, d) == c.namespace = d.namespace /\ c.key = d.key

----------------------------------------------------------------------------
(* Properties under SpecBigSegments *)

\* the document the collection holds for the metadata, and for a context
MetadataID == makeTestDocID(prefix, bigSegmentsMetadataKey, bigSegmentsMetadataKey)
RecordID(contextHashKey) == makeTestDocID(prefix, bigSegmentsUserDataKey, contextHashKey)

\* a call of the big-segment store that returned with the collection in reach
Answered(op) ==
    /\ Done(BigSegmentStore, op)
    /\ call[BigSegmentStore].reachable
    /\ Usable(BigSegmentStore)

\* the field of a document, Unset if the document does not have it
FieldOf(data, name) == IF name \in DOMAIN data THEN data[name] ELSE Unset

\* C22: GetMembership for a context that has no record in the store returns
\* an empty membership, with no reference included and none excluded, and nil.
C22_NoRecordIsEmptyMembership ==
    Answered("GetMembership")
        /\ RecordID(call[BigSegmentStore].contextHashKey) \notin DOMAIN docs =>
            /\ ret[BigSegmentStore].err = "nil"
            /\ ret[BigSegmentStore].membership
            /\ ret[BigSegmentStore].included = <<>>
            /\ ret[BigSegmentStore].excluded = <<>>

\* the store holds the record of another context, with references, and the
\* context asked for got the empty membership
C22_Witness ==
    /\ Answered("GetMembership")
    /\ RecordID(call[BigSegmentStore].contextHashKey) \notin DOMAIN docs
    /\ \E k \in BsHashKeys :
          /\ RecordID(k) \in DOMAIN docs
          /\ FieldOf(docs[RecordID(k)], bigSegmentsIncludedAttr) # Unset
    /\ ret[BigSegmentStore].err = "nil"
    /\ ret[BigSegmentStore].included = <<>>

\* C23: GetMetadata returns the zero metadata and nil when the metadata
\* document is absent or its marker is unset or zero, returns the time the
\* synchronizer stored when the marker is a non-zero integer, and returns an
\* error only when the store cannot be reached.
C23_MetadataOrZero ==
    Done(BigSegmentStore, "GetMetadata") =>
        /\ ret[BigSegmentStore].err # "nil" => ~Answered("GetMetadata")
        /\ Answered("GetMetadata") =>
              /\ ret[BigSegmentStore].err = "nil"
              /\ MetadataID \notin DOMAIN docs =>
                    ret[BigSegmentStore].LastUpToDate = ZeroMetadata
              /\ MetadataID \in DOMAIN docs
                    /\ FieldOf(docs[MetadataID], bigSegmentsSyncTimeAttr) = Unset =>
                    ret[BigSegmentStore].LastUpToDate = ZeroMetadata
              /\ \A u \in LastUpToDateValues :
                    MetadataID \in DOMAIN docs
                        /\ docs[MetadataID] = MetadataDoc(prefix, Int64Field(Int64(u))) =>
                        ret[BigSegmentStore].LastUpToDate = u

\* a time from 2^63 on, stored as a negative integer, has been returned
C23_Witness ==
    /\ Answered("GetMetadata")
    /\ MetadataID \in DOMAIN docs
    /\ FieldOf(docs[MetadataID], bigSegmentsSyncTimeAttr) = Int64Field(-1)
    /\ ret[BigSegmentStore].LastUpToDate = [wrapped |-> TRUE, val |-> 1]
    /\ ret[BigSegmentStore].err = "nil"

\* a list of references that is stored as it should be, and its references
WellFormed(field) ==
    \/ field = Unset
    \/ /\ field.type = "array"
       /\ \A i \in 1..Len(field.val) : field.val[i].type = "string"
RefsOf(field) ==
    IF field = Unset THEN <<>> ELSE [i \in 1..Len(field.val) |-> field.val[i].val]

\* C24: GetMembership for a context that has a record returns a membership
\* of exactly the stored included and excluded references, a field that is
\* not set counting as empty; when either field is set but is not a sequence,
\* or has an element that is not a string, it returns an error and no
\* membership.
C24_MembershipDecoded ==
    Answered("GetMembership")
        /\ RecordID(call[BigSegmentStore].contextHashKey) \in DOMAIN docs =>
            LET data == docs[RecordID(call[BigSegmentStore].contextHashKey)]
                inc == FieldOf(data, bigSegmentsIncludedAttr)
                exc == FieldOf(data, bigSegmentsExcludedAttr)
            IN IF WellFormed(inc) /\ WellFormed(exc)
               THEN /\ ret[BigSegmentStore].err = "nil"
                    /\ ret[BigSegmentStore].membership
                    /\ ret[BigSegmentStore].included = RefsOf(inc)
                    /\ ret[BigSegmentStore].excluded = RefsOf(exc)
               ELSE /\ ret[BigSegmentStore].err # "nil"
                    /\ ~ret[BigSegmentStore].membership

\* a record whose excluded list has an element that is no string, after a
\* sound included list, got an error and no membership
C24_Witness ==
    /\ Answered("GetMembership")
    /\ RecordID(call[BigSegmentStore].contextHashKey) \in DOMAIN docs
    /\ LET data == docs[RecordID(call[BigSegmentStore].contextHashKey)]
       IN /\ FieldOf(data, bigSegmentsIncludedAttr) =
                 ArrayField(<<StringField("s1"), StringField("s2")>>)
          /\ FieldOf(data, bigSegmentsExcludedAttr) =
                 ArrayField(<<StringField("s1"), Int64Field(7)>>)
    /\ ret[BigSegmentStore].err # "nil"
    /\ ~ret[BigSegmentStore].membership

----------------------------------------------------------------------------
(* Properties under SpecBuilder *)

\* store p is being built in this step, from the builder b
Building(p) == pc[p] = "unbuilt" /\ pc'[p] # "unbuilt"

\* the build of store p fails with err and leaves no store and no connection
BuildFailsWith(p, err) ==
    /\ pc'[p] = "failed"
    /\ ~ret'[p].store
    /\ ret'[p].err = err
    /\ client'[p] = NoClient
    /\ connOpen' = connOpen

\* C25: building either store fails and returns no store when the collection
\* name is empty ("collection name is required") or when the project ID is
\* empty and no connection was supplied ("project ID is required"); a build
\* that fails leaves no store instance and no open connection.
C25_BuildFails ==
    [][\A p \in Stores :
          Building(p) =>
              LET b == call'[p].builder
              IN /\ b.collection = <<>> =>
                        BuildFailsWith(p, "collection name is required")
                 /\ b.collection # <<>> /\ b.projectID = <<>> /\ ~b.supplied =>
                        BuildFailsWith(p, "project ID is required")
                 /\ ret'[p].err # "nil" =>
                        /\ BuildFailsWith(p, ret'[p].err)
                        /\ pc'[p] \notin {"idle", "done"}]_vars

\* the data store was refused for want of a project ID and has no
\* connection, while the big-segment store was built on a supplied connection
\* with the same empty project ID
C25_Witness ==
    /\ pc["c1"] = "failed"
    /\ ret["c1"].err = "project ID is required"
    /\ client["c1"] = NoClient
    /\ ~connOpen["c1"]
    /\ pc[BigSegmentStore] = "done"
    /\ call[BigSegmentStore].op = "Build"
    /\ call[BigSegmentStore].builder.projectID = <<>>
    /\ call[BigSegmentStore].builder.supplied
    /\ ret[BigSegmentStore].store

----------------------------------------------------------------------------
(* Properties under SpecRace *)

\* the Upsert of c2 began while the Init of c1 was past its snapshot, and
\* both have returned
UpsertDuringInit ==
    /\ Done("c1", "Init")
    /\ Done("c2", "Upsert")
    /\ call["c2"].n > call["c1"].n
    /\ call["c1"].n \notin call["c2"].pre

\* whether the key of c2's Upsert is in the dataset of c1's Init
UpsertKeyInDataset ==
    \E i \in 1..Len(FlatItems(call["c1"].allData)) :
        /\ FlatItems(call["c1"].allData)[i].kind = call["c2"].kind
        /\ FlatItems(call["c1"].allData)[i].key = call["c2"].key

\* C26: Init's delete pass removes every document that its snapshot saw and
\* whose key is not in the new dataset, whatever an Upsert wrote to it after
\* the snapshot: there is an interleaving (the witness) in which an Upsert
\* that returned applied=true between the snapshot and the delete pass has its
\* document removed by that Init.  Once Init has returned, such a document is
\* in the collection only if the Upsert wrote it after the delete.
C26_InitDeletesWhatItSaw ==
    UpsertDuringInit /\ ~UpsertKeyInDataset
        /\ UpsertID("c2") \in DOMAIN unusedOldIDs["c1"] =>
            (UpsertID("c2") \in DOMAIN docs =>
                /\ ret["c2"].applied
                /\ docs[UpsertID("c2")] = UpsertData("c2"))

\* the lost update: the Upsert found the document at version 1, returned
\* applied=true for version 2, and after Init's return the document is gone
C26_Witness ==
    /\ UpsertDuringInit
    /\ ~UpsertKeyInDataset
    /\ UpsertID("c2") \in DOMAIN unusedOldIDs["c1"]
    /\ UpsertID("c2") \in DOMAIN atCall["c2"]
    /\ atCall["c2"][UpsertID("c2")][fieldVersion] < call["c2"].newItem.Version
    /\ ret["c2"].applied
    /\ ret["c2"].err = "nil"
    /\ ret["c1"].err = "nil"
    /\ UpsertID("c2") \notin DOMAIN docs

\* the documents of a kind's namespace in a collection
NamespaceDocs(store, kind) == QueryNamespace(store, namespaceForKind(kind))

\* whether the dataset has an item of the kind that passes the size guard
HasFittingItem(allData, kind) ==
    \E i \in 1..Len(allData) : allData[i].Kind = kind /\ Fitting(allData[i]) # {}

\* C27: while an Init is in progress on a namespace that held documents
\* before it and whose new dataset has at least one item that fits, the
\* namespace is never without documents, so a concurrent GetAll never sees it
\* empty.
C27_NamespaceNeverEmpty ==
    \A kind \in Kinds :
        (/\ call["c1"].op = "Init"
         /\ pc["c1"] # "done"
         /\ NamespaceDocs(atCall["c1"], kind) # {}
         /\ HasFittingItem(call["c1"].allData, kind))
            => NamespaceDocs(docs, kind) # {}

----------------------------------------------------------------------------
(* Properties of Init's operations, under Spec *)

IsSentinelWrite(o) == o.type = "set" /\ o.ref = initedDocID
IsItemWrite(o) == o.type = "set" /\ o.ref # initedDocID
IsDelete(o) == o.type = "delete"

\* the Init of client p has handed all its operations to the BulkWriter
InitSubmitted(p) ==
    /\ call[p].op = "Init"
    /\ \/ pc[p] = "initFlush"
       \/ pc[p] = "done" /\ ret[p].err = "nil"

\* C28: in the sequence of operations Init submits, every item write comes
\* before every delete and the write of the inited document is the last
\* operation; an Init that submits its operations enqueues exactly one write
\* of the inited document, and no Init enqueues more than one.
C28_WritesDeletesSentinel ==
    \A p \in Clients :
        /\ pc[p] = "initSubmit" =>
              LET ops == operations[p]
              IN /\ ops # <<>>
                 /\ IsSentinelWrite(ops[Len(ops)])
                 /\ \A i \in 1..(Len(ops) - 1) : ~IsSentinelWrite(ops[i])
                 /\ \A i, j \in 1..Len(ops) :
                       IsDelete(ops[i]) /\ IsItemWrite(ops[j]) => j < i
        /\ InitSubmitted(p) =>
              Cardinality({o \in submitted[p] : IsSentinelWrite(o)}) = 1
        /\ call[p].op = "Init" =>
              Cardinality({o \in submitted[p] : IsSentinelWrite(o)}) <= 1

\* an Init is about to submit an item write, a delete of an old document and
\* the write of the inited document
C28_Witness ==
    \E p \in Clients :
        /\ pc[p] = "initSubmit"
        /\ Len(operations[p]) = 3
        /\ IsItemWrite(operations[p][1])
        /\ IsDelete(operations[p][2])
        /\ IsSentinelWrite(operations[p][3])

\* C29: when an operation of Init's batch fails, at the server or when it is
\* enqueued, Init still attempts every other operation it enqueued before it
\* returns (none is left with the BulkWriter), and it returns an error that
\* covers the failures.
C29_AllAttemptedOneError ==
    \A p \in Clients :
        (Done(p, "Init") /\ (failedOps[p] # {} \/ ret[p].err = "failed to write")) =>
            /\ pending[p] = {}
            /\ ret[p].err # "nil"

----------------------------------------------------------------------------
(* Properties under SpecGetAll *)

\* the documents of the store's items of a kind: those with a key, under the
\* store's prefix
KindDocIDs(kind) == {makeDocID(kind, key) : key \in Keys} \cap DOMAIN docs

----------------------------------------------------------------------------
(* Properties of the identifier's format, under SpecIdentity *)

\* C31: the data store's identifier for a kind name N and a key K is
\* "P:N:K" under a non-empty prefix P, with the prefix occurring once, and
\* "N:K" under the empty prefix: the identifier the big-segment store gives
\* to the same names.
C31_PrefixOnce ==
    \A p \in Clients :
        Done(p, "makeDocID") =>
            /\ ret[p].docID =
                  (IF prefix = <<>>
                   THEN call[p].namespace \o Colon \o call[p].key
                   ELSE prefix \o Colon \o call[p].namespace \o Colon \o call[p].key)
            /\ ret[p].docID = ret[p].bigSegmentID

----------------------------------------------------------------------------
(* Properties under SpecSize *)

\* the estimate of the document of the call: the lengths of the four field
\* names, the lengths of the three strings, and 8 for the version
CallEstimate(c) ==
    (9 + 3 + 7 + 4)
        + Len(namespaceForKind(c.kind)) + Len(c.key) + ByteLen(c.item.SerializedItem)
        + 8

\* C32: the size guard accepts a document exactly when the sum of the lengths
\* of its field names, of the byte lengths of its string fields and of 8 for
\* each other field is at most 900000: an estimate of exactly 900000 is
\* accepted, one of 900001 is rejected, in whatever order the fields are
\* visited.
C32_SizeGuardBoundary ==
    Done("c1", "checkSizeLimit") =>
        /\ ret["c1"].ok = (CallEstimate(call["c1"]) <= 900000)
        /\ ret["c1"].okInOrder = ret["c1"].ok
        /\ CallEstimate(call["c1"]) = 900000 => ret["c1"].ok
        /\ CallEstimate(call["c1"]) = 900001 => ~ret["c1"].ok

\* a document of exactly 900000 was accepted and the next, one byte longer,
\* was rejected
C32_Witness ==
    /\ Done("c1", "checkSizeLimit")
    /\ prevCall["c1"].call.op = "checkSizeLimit"
    /\ CallEstimate(prevCall["c1"].call) = 900000
    /\ prevCall["c1"].ret.ok
    /\ CallEstimate(call["c1"]) = 900001
    /\ ~ret["c1"].ok
    /\ call["c1"].order # prevCall["c1"].call.order

----------------------------------------------------------------------------
(* Properties of Upserts of one version, under SpecUpserts *)

\* two Upserts that ran on one document with the same version
SameVersionPair(p, q) ==
    /\ p # q
    /\ UpsertRan(p)
    /\ UpsertRan(q)
    /\ UpsertID(p) = UpsertID(q)
    /\ call[p].newItem.Version = call[q].newItem.Version

\* C33: when two Upserts with the same version v race on a key whose stored
\* version is below v, or which is absent, at most one of them returns
\* applied=true, and once both have returned the document is the one written
\* by the Upsert that returned applied=true.
C33_OneOfEqualVersionsWins ==
    \A p, q \in Clients :
        (SameVersionPair(p, q) /\ Undisturbed(p, q) /\ StartsBelow(p, q)) =>
            /\ ~(ret[p].applied /\ ret[q].applied)
            /\ ret[p].applied =>
                  /\ UpsertID(p) \in DOMAIN docs
                  /\ docs[UpsertID(p)] = UpsertData(p)

\* the two raced with different payloads on a stored document of a lower
\* version: one was applied, the other turned down, and the document is the
\* first one's
C33_Witness ==
    \E p, q \in Clients :
        /\ SameVersionPair(p, q)
        /\ Undisturbed(p, q)
        /\ StartsBelow(p, q)
        /\ Overlapping(p, q)
        /\ UpsertID(p) \in DOMAIN atCall[First(p, q)]
        /\ call[p].newItem.SerializedItem # call[q].newItem.SerializedItem
        /\ ret[p].applied
        /\ ~ret[q].applied
        /\ docs[UpsertID(p)] = UpsertData(p)

----------------------------------------------------------------------------
(* Properties of documents created during an Init, under SpecRace *)

\* C34: an Upsert that creates the document of a key that had no document
\* when a concurrent Init took its snapshot, and that Init's dataset lacks, is
\* never deleted by that Init: Init deletes only the IDs its snapshot read.
\* Every delete of an Init is of an ID it read, and once both calls have
\* returned the document is the Upsert's.
C34_UnseenDocumentSurvives ==
    /\ call["c1"].op = "Init" =>
          \A o \in submitted["c1"] \cup {operations["c1"][i] : i \in 1..Len(operations["c1"])} :
              IsDelete(o) =>
                  /\ o.ref \in DOMAIN unusedOldIDs["c1"]
                  /\ unusedOldIDs["c1"][o.ref]
    /\ (/\ UpsertDuringInit
        /\ UpsertRan("c2")
        /\ ret["c2"].applied
        /\ ~UpsertKeyInDataset
        /\ UpsertID("c2") \notin DOMAIN unusedOldIDs["c1"]) =>
            /\ UpsertID("c2") \in DOMAIN docs
            /\ docs[UpsertID("c2")] = UpsertData("c2")

\* the Upsert created its document after the snapshot of an Init that
\* deleted another old document of the namespace, and the new document is
\* there after Init's return
C34_Witness ==
    /\ UpsertDuringInit
    /\ UpsertRan("c2")
    /\ ret["c2"].applied
    /\ ~UpsertKeyInDataset
    /\ UpsertID("c2") \notin DOMAIN unusedOldIDs["c1"]
    /\ UpsertID("c2") \notin DOMAIN atCall["c2"]
    /\ \E o \in submitted["c1"] : IsDelete(o)
    /\ ret["c1"].err = "nil"
    /\ docs[UpsertID("c2")] = UpsertData("c2")

----------------------------------------------------------------------------
(* Properties of the steps of an Upsert, under SpecSeq *)

\* C35: Upsert(kind, key, item) changes at most the one document of
\* (prefix, kind, key): in every step of an Upsert every other document and
\* the inited document stay as they are, no document is deleted, and
\* IsInitialized would answer the same before and after.
C35_UpsertTouchesOneDocument ==
    [][call'["c1"].op = "Upsert" =>
          LET id == makeDocID(call'["c1"].kind, call'["c1"].key)
          IN /\ DOMAIN docs \subseteq DOMAIN docs'
             /\ DOMAIN docs' \subseteq DOMAIN docs \cup {id}
             /\ \A other \in DOMAIN docs \ {id} : docs'[other] = docs[other]
             /\ id # initedDocID
             /\ GetSucceeds(docs', initedDocID, TRUE) = GetSucceeds(docs, initedDocID, TRUE)]_vars

\* an Upsert was applied in a collection that holds the inited document and
\* another item, both as they were when it was called
C35_Witness ==
    /\ Done("c1", "Upsert")
    /\ ret["c1"].applied
    /\ UpsertID("c1") \in DOMAIN atCall["c1"]
    /\ docs[UpsertID("c1")] # atCall["c1"][UpsertID("c1")]
    /\ initedDocID \in DOMAIN atCall["c1"]
    /\ docs[initedDocID] = atCall["c1"][initedDocID]
    /\ \E other \in DOMAIN atCall["c1"] \ {UpsertID("c1"), initedDocID} :
          docs[other] = atCall["c1"][other]

----------------------------------------------------------------------------
(* Properties of the steps of an Init, under SpecSeq *)

\* the namespaces of the kinds a dataset supplies
SuppliedNamespaces(allData) ==
    {namespaceForKind(allData[i].Kind) : i \in 1..Len(allData)}

\* the documents that differ between two collections
Changed(before, after) ==
    {id \in DOMAIN before \cup DOMAIN after :
        \/ id \notin DOMAIN before
        \/ id \notin DOMAIN after
        \/ before[id] # after[id]}

NamespaceOf(before, after, id) ==
    IF id \in DOMAIN after THEN after[id][fieldNamespace] ELSE before[id][fieldNamespace]

\* C36: Init(allData) leaves every document of a kind that is not in allData
\* as it is: in every step of an Init the IDs it has read and the documents
\* it writes or deletes are of the namespaces of the kinds supplied, apart
\* from the write of the inited document.
C36_InitKeepsOtherKinds ==
    [][call'["c1"].op = "Init" =>
          LET supplied == SuppliedNamespaces(call'["c1"].allData)
          IN /\ \A id \in Changed(docs, docs') :
                   \/ id = initedDocID
                   \/ NamespaceOf(docs, docs', id) \in supplied
             /\ \A id \in DOMAIN unusedOldIDs'["c1"] \cap DOMAIN docs :
                   docs[id][fieldNamespace] \in supplied]_vars

\* an Init that supplied one kind has returned after changing that kind's
\* documents, and the documents of the other kind are as they were
C36_Witness ==
    /\ Done("c1", "Init")
    /\ ret["c1"].err = "nil"
    /\ \E kind \in Kinds :
          /\ namespaceForKind(kind) \notin SuppliedNamespaces(call["c1"].allData)
          /\ NamespaceDocs(atCall["c1"], kind) # {}
          /\ \A id \in NamespaceDocs(atCall["c1"], kind) :
                id \in DOMAIN docs /\ docs[id] = atCall["c1"][id]
    /\ \E id \in Changed(atCall["c1"], docs) : id # initedDocID
    /\ \E id \in DOMAIN atCall["c1"] : id \notin DOMAIN docs

----------------------------------------------------------------------------
(* Properties of an Init that cannot read, under Spec *)

\* the Init of client p returned the error of readExistingDocIDs
InitReadFailed(p) ==
    /\ Done(p, "Init")
    /\ ret[p].err = "failed to get existing items prior to Init"

\* C37: when reading the existing IDs fails at the start of Init, Init
\* returns an error without submitting any write or delete: the documents
\* are as they were (no other client writing) and the call does not create
\* the inited document.
C37_ReadFailureWritesNothing ==
    \A p \in Clients :
        InitReadFailed(p) =>
            /\ ret[p].err # "nil"
            /\ submitted[p] = {}
            /\ pending[p] = {}
            /\ operations[p] = <<>>
            /\ (\A q \in Clients \ {p} : call[q].op = "none") =>
                  /\ docs = atCall[p]
                  /\ SentinelExists <=> initedDocID \in DOMAIN atCall[p]

\* on a store that holds an upserted item and no inited document, an Init
\* with items failed to read and left both as they were
C37_Witness ==
    \E p \in Clients :
        /\ InitReadFailed(p)
        /\ \A q \in Clients \ {p} : call[q].op = "none"
        /\ call[p].allData # <<>>
        /\ NumItems(call[p].allData) > 0
        /\ atCall[p] # NoDocs
        /\ docs = atCall[p]
        /\ ~SentinelExists

====
